---------------------------- MODULE Spec2Model ----------------------------
(***************************************************************************)
(* Model of the tag lifecycle core of the supplier end-user API:           *)
(*   - the field lock registry of app/repositories/traceability_repo.py    *)
(*     and the lock / unlock services of app/services/                     *)
(*     traceability_service.py,                                            *)
(*   - the supervisor credential lookup (VALIDATE_DEVICE_SUPERVISOR),      *)
(*   - the print / re-print / rework orchestration of                      *)
(*     app/services/print_service.py and app/services/rework_service.py.   *)
(*   - the registration calls of app/data_access/register_dal.py, which   *)
(*     change the user table the credential lookups read,                  *)
(*   - the tag table TT_Kanban_Print as the print procedures change it.    *)
(* The lock and unlock actions stand for calls of the service functions:   *)
(* the two routes in front of them read an attribute their request bodies  *)
(* do not have and answer 500 before the service runs.  Every call is made *)
(* by its own worker thread (FastAPI runs the synchronous route functions  *)
(* in a thread pool), so a handler is split at each external database call *)
(* and at each unguarded access of shared state: other requests, and       *)
(* external changes of the database, interleave there.  The two lookup     *)
(* batches that read the user table twice outside a transaction are split  *)
(* between their two reads.                                                *)
(***************************************************************************)
EXTENDS Naturals, Integers, Sequences, FiniteSets, TLC

VARIABLES
    TM_Supplier_End_User, \* table TM_Supplier_End_User: the rows of the end users
    TT_Kanban_Print,      \* table TT_Kanban_Print: the barcodes of the tags on record
    _field_lock_states,   \* traceability_repo._field_lock_states: lock_key -> LockState
    lot_structure,        \* table TM_Supplier_Lot_Structure: SupplierPart -> LotLockType cell
    now,                  \* the clock read by datetime.now()
    pc,                   \* per request thread: position in its handler
    req,                  \* per request thread: the request being served
    loc,                  \* per request thread: the handler's local variables
    ret,                  \* per request thread: what its last call returned
    calls,                \* per request thread: external calls made by the current request
    history               \* the registry calls of a single sequential caller, in order

vars == <<TM_Supplier_End_User, TT_Kanban_Print, _field_lock_states,
          lot_structure, now, pc, req, loc, ret, calls, history>>

-----------------------------------------------------------------------------
(* Bounds and input domains *)

\* The clock stops the model after this many readings for a registration.
MaxClock == 2
\* The sequential caller makes this many registry calls.
MaxHistory == 3
\* The authentication clock never passes this many minutes.
MaxMinutes == 30

Threads == {"t1", "t2"}

\* Python's None (for optional strings) and the absent row of a lookup.
None == "<None>"
NoRow == [none |-> TRUE]

\* The LockKeys of the model, (supplier_part_no, supplier_code, plant_code,
\* station_no); some component strings contain the ':' the registry key is
\* joined with.
SupplierPartNos == {"P", "Q"}
\* The parts whose lot structure is edited while the service runs; the other
\* part keeps LotLockType 'STANDARD'.
ChangingParts == {"P"}
LockKeys ==
    { <<"P", "S:S", "PL", "ST">>,
      <<"P", "S", "S:PL", "ST">>,
      <<"Q", "S", "PL", "ST">> }

\* A cell of TM_Supplier_Lot_Structure.LotLockType for a part: no row for the
\* part, a row whose LotLockType is NULL, or a row with a value.
AbsentRow == "<no row>"
SqlNull == "<NULL>"
LotLockCells == {AbsentRow, SqlNull, "Disable", "STANDARD"}

\* The contents TM_Supplier_Lot_Structure takes in the model.
LotStructures ==
    { f \in [SupplierPartNos -> LotLockCells] :
          \A part \in SupplierPartNos \ ChangingParts : f[part] = "STANDARD" }

-----------------------------------------------------------------------------
(* Password hashing: SHA-256 hex digest truncated to 50 characters, tabulated
   for the passwords of the model. *)

hash_password(plain_password) ==
    CASE plain_password = "pw"  -> "30c952fab122c3f9759f02a6d95c3758b246b4fee239957b2d"
      [] plain_password = "bad" -> "2f05d4b689d270cafb02285f35f44866f7dc8a2d368a3f9d11"

-----------------------------------------------------------------------------
(* The credential store read by VALIDATE_DEVICE_SUPERVISOR *)

\* The rows of TM_Supplier_End_User when the service starts (the columns the
\* queries read); the registration endpoints change them afterwards.
InitialEndUsers ==
    { [UserID |-> "sup",     Password |-> hash_password("pw"), GroupID |-> "G1",
       SupplierCode |-> "S", SupplierPlantCode |-> "PL", PackingStation |-> "ST"],
      [UserID |-> "oper",    Password |-> hash_password("pw"), GroupID |-> "G2",
       SupplierCode |-> "S", SupplierPlantCode |-> "PL", PackingStation |-> "ST"],
      [UserID |-> "noplant", Password |-> hash_password("pw"), GroupID |-> "G1",
       SupplierCode |-> "S", SupplierPlantCode |-> "",   PackingStation |-> "ST"],
      [UserID |-> "lead",    Password |-> hash_password("pw"), GroupID |-> "G3",
       SupplierCode |-> "S", SupplierPlantCode |-> "PL", PackingStation |-> "ST"],
      [UserID |-> "far",     Password |-> hash_password("pw"), GroupID |-> "G1",
       SupplierCode |-> "S", SupplierPlantCode |-> "PX", PackingStation |-> "ST"],
      [UserID |-> "dual",    Password |-> hash_password("pw"), GroupID |-> "G2",
       SupplierCode |-> "S", SupplierPlantCode |-> "PL", PackingStation |-> "ST"],
      [UserID |-> "nogroup", Password |-> hash_password("pw"), GroupID |-> "G9",
       SupplierCode |-> "S", SupplierPlantCode |-> "PL", PackingStation |-> "ST"] }

\* The barcodes of the tags TT_Kanban_Print holds when the service starts;
\* the print procedures change them afterwards.  A barcode is the sequence
\* of its characters.
InitialTags == { <<"B", "1">> }

\* TM_Supplier_GROUP rows.
TM_Supplier_GROUP ==
    { [GroupID |-> "G1", GroupName |-> "EOL Supervisor"],
      [GroupID |-> "G2", GroupName |-> "EOL User"],
      [GroupID |-> "G3", GroupName |-> "Line Lead"] }

\* TM_Supplier_GROUP_RIGHTS rows; the GroupID column holds the group's name.
TM_Supplier_GROUP_RIGHTS ==
    { [GroupID |-> "EOL Supervisor", ScreenId |-> "3002", View |-> 1],
      [GroupID |-> "EOL Supervisor", ScreenId |-> "2003", View |-> 1],
      [GroupID |-> "EOL User",       ScreenId |-> "3001", View |-> 1],
      [GroupID |-> "EOL User",       ScreenId |-> "3002", View |-> 0],
      [GroupID |-> "Line Lead",      ScreenId |-> "3002", View |-> 1] }

\* TM_Supplier_Plant rows (PlantCode, PlantName); LEFT JOINed, so a missing
\* plant yields PlantName = ''.
TM_Supplier_Plant == { [PlantCode |-> "PL", PlantName |-> "Plant One"] }

\* TM_SuppUser_SuppCode_Mapping rows.
TM_SuppUser_SuppCode_Mapping == { [UserID |-> "admin", SupplierCode |-> "S"] }

\* The (user_id, password) pairs requests carry: the supervisor, the
\* supervisor with a wrong password (no record matches), a user without
\* supervisor rights, a supervisor without a plant code.
Credentials ==
    { <<"sup", "pw">>, <<"sup", "bad">>, <<"oper", "pw">>, <<"noplant", "pw">> }

\* ISNULL(P.PlantName, '') of the LEFT JOIN on PlantCode.
PlantNameOf(plant_code) ==
    IF \E p \in TM_Supplier_Plant : p.PlantCode = plant_code
    THEN (CHOOSE p \in TM_Supplier_Plant : p.PlantCode = plant_code).PlantName
    ELSE ""

\* The first two statements of the lookup batches, the first one reading
\* table: SELECT @g = GroupID FROM TM_Supplier_End_User WHERE UserID = ? AND
\* Password = ?, then SELECT @n = GroupName FROM TM_Supplier_GROUP WHERE
\* GroupID = @g.  @n stays NULL when nothing matches.
GroupNameOf(table, user_id, hashed_pwd) ==
    LET us == {u \in table : u.UserID = user_id /\ u.Password = hashed_pwd}
        gs == {g \in TM_Supplier_GROUP : \E u \in us : g.GroupID = u.GroupID}
    IN  IF gs = {} THEN SqlNull ELSE (CHOOSE g \in gs : TRUE).GroupName

\* The screens whose view right admits a supervisor.
SupervisorScreens == {"3002", "2003"}

\* IF EXISTS (SELECT 1 FROM TM_Supplier_GROUP_RIGHTS WHERE GroupID = @n
\*            AND [View] = 1 AND ScreenId IN (...)).
HasViewRight(group_name, screens) ==
    \E r \in TM_Supplier_GROUP_RIGHTS :
        r.GroupID = group_name /\ r.View = 1 /\ r.ScreenId \in screens

\* The last statement of validate_device_supervisor's batch, reading table:
\* SELECT TOP 1 ... FROM TM_Supplier_End_User um WITH (NOLOCK) INNER JOIN
\* TM_Supplier_GROUP gm ... LEFT JOIN ... P WHERE um.UserID = ? AND
\* um.Password = ?.
SupervisorSelect(table, user_id, hashed_pwd) ==
    LET rows == {u \in table :
                     /\ u.UserID = user_id
                     /\ u.Password = hashed_pwd
                     /\ \E g \in TM_Supplier_GROUP : g.GroupID = u.GroupID}
    IN  IF rows # {}
        THEN LET u == CHOOSE r \in rows : TRUE
                 gm == CHOOSE g \in TM_Supplier_GROUP : g.GroupID = u.GroupID
             IN  [none |-> FALSE,
                  UserID |-> u.UserID,
                  SupplierCode |-> u.SupplierCode,
                  SupplierPlantCode |-> u.SupplierPlantCode,
                  PackingStation |-> u.PackingStation,
                  GroupName |-> gm.GroupName,
                  PlantName |-> PlantNameOf(u.SupplierPlantCode)]
        ELSE NoRow

\* validate_device_supervisor's batch from its IF EXISTS on, @gName1 being
\* gName: the final SELECT runs only when the group has a view right.
SupervisorBatchEnd(gName, table, user_id, password) ==
    IF HasViewRight(gName, SupervisorScreens)
    THEN SupervisorSelect(table, user_id, hash_password(password))
    ELSE NoRow

\* traceability_repo.validate_device_supervisor.  Its batch runs in no
\* transaction and reads TM_Supplier_End_User twice: first is the table as the
\* statement that sets @gID1 finds it, last the table as the final SELECT
\* finds it.  The result is the supervisor's row, or NoRow.
validate_device_supervisor(first, last, user_id, password) ==
    SupervisorBatchEnd(GroupNameOf(first, user_id, hash_password(password)),
                       last, user_id, password)

\* A refusal that looks at the plant code only and lets a missing row through.
SupervisorRejected_plant_only(sup_row) ==
    ~sup_row.none /\ sup_row.SupplierPlantCode = ""

\* `sup_row is None or not sup_row.get("SupplierPlantCode")`.
SupervisorRejected(sup_row) ==
    sup_row.none \/ sup_row.SupplierPlantCode = ""

-----------------------------------------------------------------------------
(* The field lock registry (traceability_repo section 6) *)

\* SELECT TOP 1 ISNULL(LotLockType, 'Enable') ... WHERE SupplierPart = ?
get_lot_lock_type(table, supplier_part_no) ==
    LET cell == table[supplier_part_no]
    IN  IF cell = AbsentRow THEN None
        ELSE IF cell = SqlNull THEN "Enable"
        ELSE cell

\* f"{supplier_part_no}:{supplier_code}:{plant_code}:{station_no}"
lock_key(k) ==
    k[1] \o ":" \o k[2] \o ":" \o k[3] \o ":" \o k[4]

\* states[key] = value
DictSet(states, key, value) ==
    [x \in (DOMAIN states) \cup {key} |-> IF x = key THEN value ELSE states[x]]

\* del states[key]
DictDel(states, key) ==
    [x \in (DOMAIN states) \ {key} |-> states[x]]

\* lock_fields without its 'Disable' branch.
lock_fields_disable_unchecked(states, lot_lock_type, k, clock) ==
    IF lot_lock_type = None
    THEN [states |-> states, success |-> FALSE, lot_lock_type |-> None]
    ELSE [states |-> DictSet(states, lock_key(k),
                             [locked |-> TRUE,
                              locked_at |-> clock,
                              lot_lock_type |-> lot_lock_type]),
          success |-> TRUE,
          lot_lock_type |-> lot_lock_type]

\* lock_fields dropping the key's entry when the lock is refused.
lock_fields_failure_clears(states, lot_lock_type, k, clock) ==
    IF lot_lock_type = None \/ lot_lock_type = "Disable"
    THEN [states |-> IF lock_key(k) \in DOMAIN states
                     THEN DictDel(states, lock_key(k)) ELSE states,
          success |-> FALSE, lot_lock_type |-> lot_lock_type]
    ELSE [states |-> DictSet(states, lock_key(k),
                             [locked |-> TRUE,
                              locked_at |-> clock,
                              lot_lock_type |-> lot_lock_type]),
          success |-> TRUE,
          lot_lock_type |-> lot_lock_type]

\* lock_fields leaving the entry of a key that is already Locked as it is.
lock_fields_keeps_first(states, lot_lock_type, k, clock) ==
    IF lot_lock_type = None
    THEN [states |-> states, success |-> FALSE, lot_lock_type |-> None]
    ELSE IF lot_lock_type = "Disable"
    THEN [states |-> states, success |-> FALSE, lot_lock_type |-> lot_lock_type]
    ELSE [states |-> IF lock_key(k) \in DOMAIN states THEN states
                     ELSE DictSet(states, lock_key(k),
                                  [locked |-> TRUE,
                                   locked_at |-> clock,
                                   lot_lock_type |-> lot_lock_type]),
          success |-> TRUE,
          lot_lock_type |-> lot_lock_type]

\* traceability_repo.lock_fields after its policy lookup returned
\* lot_lock_type: the registry it leaves and the pair it returns.
lock_fields(states, lot_lock_type, k, clock) ==
    IF lot_lock_type = None
    THEN [states |-> states, success |-> FALSE, lot_lock_type |-> None]
    ELSE IF lot_lock_type = "Disable"
    THEN [states |-> states, success |-> FALSE, lot_lock_type |-> lot_lock_type]
    ELSE [states |-> DictSet(states, lock_key(k),
                             [locked |-> TRUE,
                              locked_at |-> clock,
                              lot_lock_type |-> lot_lock_type]),
          success |-> TRUE,
          lot_lock_type |-> lot_lock_type]

\* unlock_fields keeping a tombstone (locked = False) instead of deleting.
unlock_fields_tombstone(states, k) ==
    [states |-> IF lock_key(k) \in DOMAIN states
                THEN DictSet(states, lock_key(k),
                             [states[lock_key(k)] EXCEPT !.locked = FALSE])
                ELSE states,
     success |-> TRUE]

\* unlock_fields joining plant_code and station_no in the other order.
unlock_fields_other_key(states, k) ==
    LET key == k[1] \o ":" \o k[2] \o ":" \o k[4] \o ":" \o k[3]
    IN  [states |-> IF key \in DOMAIN states THEN DictDel(states, key) ELSE states,
         success |-> TRUE]

\* unlock_fields returning whether there was an entry to remove.
unlock_fields_reports_presence(states, k) ==
    [states |-> IF lock_key(k) \in DOMAIN states
                THEN DictDel(states, lock_key(k))
                ELSE states,
     success |-> lock_key(k) \in DOMAIN states]

\* traceability_repo.unlock_fields
unlock_fields(states, k) ==
    [states |-> IF lock_key(k) \in DOMAIN states
                THEN DictDel(states, lock_key(k))
                ELSE states,
     success |-> TRUE]

\* traceability_repo.is_fields_locked
is_fields_locked(states, k) ==
    lock_key(k) \in DOMAIN states /\ states[lock_key(k)].locked

-----------------------------------------------------------------------------
(* Request threads *)

Idle == [op |-> "none"]
NoCalls == [validate_device_supervisor |-> 0, executor |-> 0, validate_tag |-> 0]

\* A thread starts a handler: its request, the locals after the handler's
\* first database call, nothing returned yet.
Enter(t, position, request, locals, made) ==
    /\ pc[t] = "idle"
    /\ pc' = [pc EXCEPT ![t] = position]
    /\ req' = [req EXCEPT ![t] = request]
    /\ loc' = [loc EXCEPT ![t] = locals]
    /\ ret' = [ret EXCEPT ![t] = Idle]
    /\ calls' = [calls EXCEPT ![t] = made]

\* A thread's handler returns value.
Leave(t, value) ==
    /\ pc' = [pc EXCEPT ![t] = "idle"]
    /\ req' = [req EXCEPT ![t] = Idle]
    /\ loc' = [loc EXCEPT ![t] = Idle]
    /\ ret' = [ret EXCEPT ![t] = value]
    /\ UNCHANGED calls

\* The dict of a LockKey's four components that lock_fields answers with.
KeyData(k) ==
    [supplier_part_no |-> k[1], supplier_code |-> k[2],
     plant_code |-> k[3], station_no |-> k[4]]

\* traceability_service.lock_fields: the LockFieldsResponse built from what
\* the repository returned.  The schema declares success, message, locked and
\* data only, so the lot_lock_type keyword the service passes is dropped.
LockFieldsResponse(success, lot_lock_type, k) ==
    IF lot_lock_type = None
    THEN [success |-> FALSE,
          message |-> "Supplier part '" \o k[1] \o "' not found in Lot Structure",
          locked |-> FALSE, data |-> NoRow]
    ELSE IF lot_lock_type = "Disable"
    THEN [success |-> FALSE,
          message |-> "Locking is disabled for supplier part '" \o k[1]
                      \o "' (LotLockType=Disable)",
          locked |-> FALSE, data |-> KeyData(k)]
    ELSE [success |-> success,
          message |-> IF success THEN "Fields locked successfully"
                      ELSE "Failed to lock fields",
          locked |-> success, data |-> KeyData(k)]

\* lock_fields up to and including the policy lookup (get_lot_lock_type).
LockFieldsLookup(t, k) ==
    /\ Enter(t, "lock_fields",
             [op |-> "lock_fields", key |-> k],
             [lot_lock_type |-> get_lot_lock_type(lot_structure, k[1]),
              began |-> now],
             NoCalls)
    /\ UNCHANGED <<TM_Supplier_End_User, TT_Kanban_Print, _field_lock_states,
                   lot_structure, now, history>>

\* lock_fields evaluates datetime.now() for the entry it is about to store.
\* The registry has no lock around it, so other threads run between this read
\* of the clock and the store.
LockFieldsClock(t) ==
    /\ pc[t] = "lock_fields"
    /\ loc[t].lot_lock_type \notin {None, "Disable"}
    /\ now < MaxClock
    /\ pc' = [pc EXCEPT ![t] = "lock_fields_store"]
    /\ loc' = [loc EXCEPT ![t] = [lot_lock_type |-> loc[t].lot_lock_type,
                                  began |-> loc[t].began,
                                  locked_at |-> now]]
    /\ now' = now + 1
    /\ UNCHANGED <<TM_Supplier_End_User, TT_Kanban_Print, _field_lock_states,
                   lot_structure, req, ret, calls, history>>

\* lock_fields to the handler's return: the refusal right after the lookup,
\* or the store of the entry with the time read before.
LockFieldsFinish(t) ==
    /\ \/ pc[t] = "lock_fields" /\ loc[t].lot_lock_type \in {None, "Disable"}
       \/ pc[t] = "lock_fields_store"
    /\ LET r == lock_fields(_field_lock_states, loc[t].lot_lock_type, req[t].key,
                            IF pc[t] = "lock_fields_store"
                            THEN loc[t].locked_at ELSE now)
       IN  /\ _field_lock_states' = r.states
           /\ Leave(t, [op |-> "lock_fields",
                        key |-> req[t].key,
                        repo |-> <<r.success, r.lot_lock_type>>,
                        response |-> LockFieldsResponse(r.success, r.lot_lock_type,
                                                        req[t].key)])
    /\ UNCHANGED <<TM_Supplier_End_User, TT_Kanban_Print, lot_structure, now,
                   history>>

\* traceability_service.unlock_fields up to the first read of the user table
\* by the supervisor lookup's batch, which sets @gName1.
UnlockFieldsValidate(t, cred, k) ==
    /\ Enter(t, "unlock_fields_select",
             [op |-> "unlock_fields", user_id |-> cred[1], password |-> cred[2],
              key |-> k],
             [gName |-> GroupNameOf(TM_Supplier_End_User, cred[1],
                                    hash_password(cred[2]))],
             [NoCalls EXCEPT !.validate_device_supervisor = 1])
    /\ UNCHANGED <<TM_Supplier_End_User, TT_Kanban_Print, _field_lock_states,
                   lot_structure, now, history>>

\* The rest of the supervisor lookup's batch, with its second read of the
\* user table, and the lookup's return.
UnlockFieldsSelect(t) ==
    /\ pc[t] = "unlock_fields_select"
    /\ pc' = [pc EXCEPT ![t] = "unlock_fields"]
    /\ loc' = [loc EXCEPT ![t] =
                  [supervisor_row |->
                       SupervisorBatchEnd(loc[t].gName, TM_Supplier_End_User,
                                          req[t].user_id, req[t].password)]]
    /\ UNCHANGED <<TM_Supplier_End_User, TT_Kanban_Print, _field_lock_states,
                   lot_structure, now, req, ret, calls, history>>

\* An unlock that removes the entry before it looks at the supervisor row.
UnlockFieldsFinish_unlocks_first(t) ==
    /\ pc[t] = "unlock_fields"
    /\ LET r == unlock_fields(_field_lock_states, req[t].key)
       IN  /\ _field_lock_states' = r.states
           /\ IF SupervisorRejected(loc[t].supervisor_row)
              THEN Leave(t, [op |-> "unlock_fields", key |-> req[t].key,
                             success |-> FALSE,
                             message |-> "Supervisor authentication failed",
                             unlocked |-> FALSE, supervisor_verified |-> FALSE,
                             data |-> None])
              ELSE Leave(t, [op |-> "unlock_fields", key |-> req[t].key,
                             success |-> r.success,
                             message |-> "Fields unlocked successfully",
                             unlocked |-> r.success, supervisor_verified |-> TRUE,
                             data |-> loc[t].supervisor_row.UserID])
    /\ UNCHANGED <<TM_Supplier_End_User, TT_Kanban_Print, lot_structure, now,
                   history>>

\* An unlock that also goes ahead when an earlier request has left a verified
\* supervisor behind, as a session would.
UnlockFieldsFinish_session(t) ==
    /\ pc[t] = "unlock_fields"
    /\ IF /\ SupervisorRejected(loc[t].supervisor_row)
          /\ ~\E u \in Threads :
                 ret[u].op = "unlock_fields" /\ ret[u].supervisor_verified
       THEN /\ UNCHANGED _field_lock_states
            /\ Leave(t, [op |-> "unlock_fields", key |-> req[t].key,
                         success |-> FALSE,
                         message |-> "Supervisor authentication failed",
                         unlocked |-> FALSE, supervisor_verified |-> FALSE,
                         data |-> None])
       ELSE LET r == unlock_fields(_field_lock_states, req[t].key)
            IN  /\ _field_lock_states' = r.states
                /\ Leave(t, [op |-> "unlock_fields", key |-> req[t].key,
                             success |-> r.success,
                             message |-> "Fields unlocked successfully",
                             unlocked |-> r.success, supervisor_verified |-> TRUE,
                             data |-> req[t].user_id])
    /\ UNCHANGED <<TM_Supplier_End_User, TT_Kanban_Print, lot_structure, now,
                   history>>

\* traceability_service.unlock_fields from the lookup's return on.  The
\* repository's membership test and its del have no call between them, so
\* no other thread runs between the two.
UnlockFieldsFinish(t) ==
    /\ pc[t] = "unlock_fields"
    /\ IF SupervisorRejected(loc[t].supervisor_row)
       THEN /\ UNCHANGED _field_lock_states
            /\ Leave(t, [op |-> "unlock_fields", key |-> req[t].key,
                         success |-> FALSE,
                         message |-> "Supervisor authentication failed",
                         unlocked |-> FALSE, supervisor_verified |-> FALSE,
                         data |-> None])
       ELSE LET r == unlock_fields(_field_lock_states, req[t].key)
            IN  /\ _field_lock_states' = r.states
                /\ Leave(t, [op |-> "unlock_fields", key |-> req[t].key,
                             success |-> r.success,
                             message |-> IF r.success
                                         THEN "Fields unlocked successfully"
                                         ELSE "Failed to unlock fields",
                             unlocked |-> r.success, supervisor_verified |-> TRUE,
                             data |-> loc[t].supervisor_row.UserID])
    /\ UNCHANGED <<TM_Supplier_End_User, TT_Kanban_Print, lot_structure, now,
                   history>>

\* A request thread serves a whole request and answers with result.
Serve(t, result) ==
    /\ pc[t] = "idle"
    /\ ret' = [ret EXCEPT ![t] = result]
    /\ UNCHANGED <<pc, req, loc, calls>>

\* The request bodies of the lock and unlock endpoints as pydantic builds them
\* from the JSON a client sends: the declared fields only, a supplier_part_no
\* in the JSON is ignored.
LockFieldsRequest(json) ==
    [f \in {"supplier_code", "plant_code", "station_no"} |-> json[f]]

UnlockFieldsRequest(json) ==
    [f \in {"user_id", "password", "supplier_code", "plant_code", "station_no"}
        |-> json[f]]

\* body.name: the attribute, or the AttributeError of a field the body's
\* class does not declare.
Attribute(body, name) ==
    IF name \in DOMAIN body
    THEN [raised |-> "", value |-> body[name]]
    ELSE [raised |-> "AttributeError"]

\* POST /api/traceability/lock-fields.  The route evaluates
\* body.supplier_part_no as the first argument of the service call; an
\* exception there ends the request with status 500 before the service runs.
LockFieldsEndpoint(t, k) ==
    /\ LET body == LockFieldsRequest(KeyData(k))
           supplier_part_no == Attribute(body, "supplier_part_no")
       IN  /\ supplier_part_no.raised # ""
           /\ Serve(t, [op |-> "lock_fields_endpoint",
                        status |-> 500, raised |-> supplier_part_no.raised])
    /\ UNCHANGED <<TM_Supplier_End_User, TT_Kanban_Print, _field_lock_states,
                   lot_structure, now, history>>

\* POST /api/traceability/unlock-fields.  body.user_id and body.password are
\* read, then body.supplier_part_no raises before the service runs.
UnlockFieldsEndpoint(t, cred, k) ==
    /\ LET body == UnlockFieldsRequest(
                       [user_id |-> cred[1], password |-> cred[2],
                        supplier_part_no |-> k[1], supplier_code |-> k[2],
                        plant_code |-> k[3], station_no |-> k[4]])
           supplier_part_no == Attribute(body, "supplier_part_no")
       IN  /\ supplier_part_no.raised # ""
           /\ Serve(t, [op |-> "unlock_fields_endpoint",
                        status |-> 500, raised |-> supplier_part_no.raised])
    /\ UNCHANGED <<TM_Supplier_End_User, TT_Kanban_Print, _field_lock_states,
                   lot_structure, now, history>>

-----------------------------------------------------------------------------
(* User registration (app/data_access/register_dal.py).  The procedure
   PRC_UserSupplier_EndUser itself is no part of the repository's source;
   what it does to TM_Supplier_End_User is taken from the docstrings and
   comments of register_dal: INSERT adds the user's row unless the user
   exists, UPDATE and DELETE act on the user's row, UPDATEPASSWORD verifies
   the old hash, and INSERT and UPDATE write the supplier code of a mapping
   table instead of the caller's. *)

\* The RESULT column of a refusal: the procedure's error message.
SpRefusal == "<error message>"
SpDone == [RESULT |-> "Y"]

\* The supplier code the procedure writes by itself.
MappedSupplierCode(created_by) ==
    LET mapped == {mp \in TM_SuppUser_SuppCode_Mapping : mp.UserID = created_by}
    IN  IF mapped = {} THEN "" ELSE (CHOOSE mp \in mapped : TRUE).SupplierCode

\* EXEC PRC_UserSupplier_EndUser with the arguments register_dal passes: the
\* table it leaves and the row _fetch_sp_result reads.
PRC_UserSupplier_EndUser(table, type, a) ==
    LET mine == {u \in table : u.UserID = a.user_id}
    IN  CASE type = "INSERT" ->
               IF mine # {}
               THEN [table |-> table, result |-> [RESULT |-> SpRefusal]]
               ELSE [table |-> table \cup
                        {[UserID |-> a.user_id,
                          Password |-> hash_password(a.password),
                          GroupID |-> a.group_id,
                          SupplierCode |-> MappedSupplierCode(a.created_by),
                          SupplierPlantCode |-> a.supplier_plant_code,
                          PackingStation |-> a.packing_station]},
                     result |-> SpDone]
          [] type = "UPDATE" ->
               IF mine = {}
               THEN [table |-> table, result |-> [RESULT |-> SpRefusal]]
               ELSE [table |-> (table \ mine) \cup
                        {[u EXCEPT !.Password = hash_password(a.password),
                                   !.GroupID = a.group_id,
                                   !.SupplierCode = MappedSupplierCode(a.created_by),
                                   !.SupplierPlantCode = a.supplier_plant_code] :
                         u \in mine},
                     result |-> SpDone]
          [] type = "DELETE" ->
               IF mine = {}
               THEN [table |-> table, result |-> [RESULT |-> SpRefusal]]
               ELSE [table |-> table \ mine, result |-> SpDone]
          [] type = "UPDATEPASSWORD" ->
               LET verified == {u \in mine : u.Password = hash_password(a.old_password)}
               IN  IF verified = {}
                   THEN [table |-> table, result |-> [RESULT |-> SpRefusal]]
                   ELSE [table |-> (table \ verified) \cup
                            {[u EXCEPT !.Password = hash_password(a.new_password)] :
                             u \in verified},
                         result |-> SpDone]

\* UPDATE TM_Supplier_End_User SET SupplierCode = ? WHERE UserID = ?
SetSupplierCode(table, user_id, supplier_code) ==
    {IF u.UserID = user_id THEN [u EXCEPT !.SupplierCode = supplier_code] ELSE u :
     u \in table}

\* register_dal.delete_user
delete_user(table, user_id) ==
    PRC_UserSupplier_EndUser(table, "DELETE", [user_id |-> user_id])

\* register_dal.change_password
change_password(table, user_id, old_password, new_password) ==
    PRC_UserSupplier_EndUser(table, "UPDATEPASSWORD",
                             [user_id |-> user_id, old_password |-> old_password,
                              new_password |-> new_password])

\* register_dal.register_user up to and including the commit of the
\* procedure's INSERT.
RegisterUserInsert(t, a) ==
    /\ LET sp == PRC_UserSupplier_EndUser(TM_Supplier_End_User, "INSERT", a)
       IN  /\ TM_Supplier_End_User' = sp.table
           /\ Enter(t, "register_user", [op |-> "register_user", args |-> a],
                    [result |-> sp.result], NoCalls)
    /\ UNCHANGED <<TT_Kanban_Print, _field_lock_states, lot_structure, now,
                   history>>

\* register_user from there on: after a 'Y' the direct UPDATE that stores the
\* caller's supplier code, committed on its own.
RegisterUserPatch(t) ==
    /\ pc[t] = "register_user"
    /\ TM_Supplier_End_User' =
          IF loc[t].result.RESULT = "Y"
          THEN SetSupplierCode(TM_Supplier_End_User, req[t].args.user_id,
                               req[t].args.supplier_code)
          ELSE TM_Supplier_End_User
    /\ Leave(t, [op |-> "register_user", result |-> loc[t].result])
    /\ UNCHANGED <<TT_Kanban_Print, _field_lock_states, lot_structure, now,
                   history>>

\* register_dal.update_user up to and including the commit of the
\* procedure's UPDATE.
UpdateUserUpdate(t, a) ==
    /\ LET sp == PRC_UserSupplier_EndUser(TM_Supplier_End_User, "UPDATE", a)
       IN  /\ TM_Supplier_End_User' = sp.table
           /\ Enter(t, "update_user", [op |-> "update_user", args |-> a],
                    [result |-> sp.result], NoCalls)
    /\ UNCHANGED <<TT_Kanban_Print, _field_lock_states, lot_structure, now,
                   history>>

\* update_user from there on: after a 'Y', and when the caller gave a supplier
\* code, the direct UPDATE that stores it.
UpdateUserPatch(t) ==
    /\ pc[t] = "update_user"
    /\ TM_Supplier_End_User' =
          IF loc[t].result.RESULT = "Y" /\ req[t].args.supplier_code # ""
          THEN SetSupplierCode(TM_Supplier_End_User, req[t].args.user_id,
                               req[t].args.supplier_code)
          ELSE TM_Supplier_End_User
    /\ Leave(t, [op |-> "update_user", result |-> loc[t].result])
    /\ UNCHANGED <<TT_Kanban_Print, _field_lock_states, lot_structure, now,
                   history>>

\* register_dal.delete_user, called for a request
DeleteUser(t, user_id) ==
    /\ LET sp == delete_user(TM_Supplier_End_User, user_id)
       IN  /\ TM_Supplier_End_User' = sp.table
           /\ Serve(t, [op |-> "delete_user", user_id |-> user_id,
                        result |-> sp.result])
    /\ UNCHANGED <<TT_Kanban_Print, _field_lock_states, lot_structure, now,
                   history>>

\* register_dal.change_password, called for a request
ChangePassword(t, a) ==
    /\ LET sp == change_password(TM_Supplier_End_User, a.user_id, a.old_password,
                                 a.new_password)
       IN  /\ TM_Supplier_End_User' = sp.table
           /\ Serve(t, [op |-> "change_password", user_id |-> a.user_id,
                        result |-> sp.result])
    /\ UNCHANGED <<TT_Kanban_Print, _field_lock_states, lot_structure, now,
                   history>>

\* The calls of register_dal the model makes: the supervisor is registered
\* again (after a deletion, or in vain) with another supplier code; the
\* supervisor is moved to the operators' group and given another supplier
\* code, and the operator is moved to the supervisors' group and given a
\* list of supplier codes; the supervisor is deleted; the supervisor's
\* password is changed.
Registrations ==
    { [user_id |-> "sup", password |-> "pw", supplier_plant_code |-> "PL",
       supplier_code |-> "T", group_id |-> "G1", created_by |-> "admin",
       packing_station |-> "ST"] }
Updates ==
    { [user_id |-> "sup", password |-> "pw", supplier_plant_code |-> "PL",
       supplier_code |-> "T", group_id |-> "G2", created_by |-> "admin"],
      [user_id |-> "oper", password |-> "pw", supplier_plant_code |-> "PL",
       supplier_code |-> " T,S ", group_id |-> "G1", created_by |-> "admin"] }
\* The update that takes the supervisor's rights away and gives no supplier
\* code.
Demotions ==
    { [user_id |-> "sup", password |-> "pw", supplier_plant_code |-> "PL",
       supplier_code |-> "", group_id |-> "G2", created_by |-> "admin"] }
Deletions == {"sup"}
PasswordChanges ==
    { [user_id |-> "sup", old_password |-> "pw", new_password |-> "bad"] }

-----------------------------------------------------------------------------
(* Changes of the database from outside the service *)

\* The lot structure of a part is changed from outside the service.
SetLotLockType(part, cell) ==
    /\ lot_structure[part] # cell
    /\ lot_structure' = [lot_structure EXCEPT ![part] = cell]
    /\ UNCHANGED <<TM_Supplier_End_User, TT_Kanban_Print, _field_lock_states,
                   now, pc, req, loc, ret, calls, history>>

-----------------------------------------------------------------------------
(* The field lock coordinator under concurrent requests *)

\* The credentials the unlock requests carry here, where the user table
\* stays as it is: the supervisor's, and the supervisor's with a wrong
\* password.
UnlockCredentials == { <<"sup", "pw">>, <<"sup", "bad">> }

Init ==
    /\ TM_Supplier_End_User = InitialEndUsers
    /\ TT_Kanban_Print = InitialTags
    /\ _field_lock_states = <<>>
    /\ lot_structure \in LotStructures
    /\ now = 0
    /\ pc = [t \in Threads |-> "idle"]
    /\ req = [t \in Threads |-> Idle]
    /\ loc = [t \in Threads |-> Idle]
    /\ ret = [t \in Threads |-> Idle]
    /\ calls = [t \in Threads |-> NoCalls]
    /\ history = <<>>

Next ==
    \/ \E t \in Threads, k \in LockKeys : LockFieldsLookup(t, k)
    \/ \E t \in Threads : LockFieldsClock(t)
    \/ \E t \in Threads : LockFieldsFinish(t)
    \/ \E t \in Threads, cred \in UnlockCredentials, k \in LockKeys :
           UnlockFieldsValidate(t, cred, k)
    \/ \E t \in Threads : UnlockFieldsSelect(t)
    \/ \E t \in Threads : UnlockFieldsFinish(t)
    \/ \E part \in ChangingParts, cell \in LotLockCells : SetLotLockType(part, cell)

Spec == Init /\ [][Next]_vars

-----------------------------------------------------------------------------
(* The registry functions called one after the other by a single caller *)

\* The registries earlier lock calls can have left behind.
PriorRegistries ==
    UNION { [ks -> [locked : {TRUE}, locked_at : {0},
                    lot_lock_type : {"Enable"}]] :
            ks \in SUBSET {lock_key(k) : k \in LockKeys} }

Record(op, k, result, after) ==
    history' = Append(history, [op |-> op, key |-> k, result |-> result,
                                before |-> _field_lock_states, after |-> after])

\* The thread of the single caller.
SeqCaller == CHOOSE t \in Threads : TRUE

\* traceability_repo.lock_fields up to and including the policy lookup
\* (get_lot_lock_type); the lot structure can change while the caller waits
\* for the database and after it.
SeqLockFieldsLookup(k) ==
    /\ Len(history) < MaxHistory
    /\ LockFieldsLookup(SeqCaller, k)

\* lock_fields evaluates datetime.now() for the entry it is about to store.
\* The number of calls bounds the clock here.
SeqLockFieldsClock ==
    /\ pc[SeqCaller] = "lock_fields"
    /\ loc[SeqCaller].lot_lock_type \notin {None, "Disable"}
    /\ pc' = [pc EXCEPT ![SeqCaller] = "lock_fields_store"]
    /\ loc' = [loc EXCEPT ![SeqCaller] =
                  [lot_lock_type |-> loc[SeqCaller].lot_lock_type,
                   began |-> loc[SeqCaller].began,
                   locked_at |-> now]]
    /\ now' = now + 1
    /\ UNCHANGED <<TM_Supplier_End_User, TT_Kanban_Print, _field_lock_states,
                   lot_structure, req, ret, calls, history>>

\* lock_fields to its return: the refusal right after the lookup, or the
\* store of the entry with the policy looked up and the time read before.
SeqLockFieldsFinish ==
    /\ \/ /\ pc[SeqCaller] = "lock_fields"
          /\ loc[SeqCaller].lot_lock_type \in {None, "Disable"}
       \/ pc[SeqCaller] = "lock_fields_store"
    /\ LET k == req[SeqCaller].key
           r == lock_fields(_field_lock_states, loc[SeqCaller].lot_lock_type, k,
                            IF pc[SeqCaller] = "lock_fields_store"
                            THEN loc[SeqCaller].locked_at ELSE now)
       IN  /\ _field_lock_states' = r.states
           /\ Record("lock_fields", k, <<r.success, r.lot_lock_type>>, r.states)
           /\ Leave(SeqCaller,
                    [op |-> "lock_fields", key |-> k,
                     repo |-> <<r.success, r.lot_lock_type>>,
                     response |-> LockFieldsResponse(r.success, r.lot_lock_type, k)])
    /\ UNCHANGED <<TM_Supplier_End_User, TT_Kanban_Print, lot_structure, now>>

\* traceability_repo.unlock_fields
SeqUnlockFields(k) ==
    /\ Len(history) < MaxHistory
    /\ pc[SeqCaller] = "idle"
    /\ LET r == unlock_fields(_field_lock_states, k)
       IN  /\ _field_lock_states' = r.states
           /\ Record("unlock_fields", k, r.success, r.states)
    /\ UNCHANGED <<TM_Supplier_End_User, TT_Kanban_Print, lot_structure, now,
                   pc, req, loc, ret, calls>>

\* traceability_repo.is_fields_locked
SeqIsFieldsLocked(k) ==
    /\ Len(history) < MaxHistory
    /\ pc[SeqCaller] = "idle"
    /\ Record("is_fields_locked", k, is_fields_locked(_field_lock_states, k),
              _field_lock_states)
    /\ UNCHANGED <<TM_Supplier_End_User, TT_Kanban_Print, _field_lock_states,
                   lot_structure, now, pc, req, loc, ret, calls>>

InitSeq ==
    /\ TM_Supplier_End_User = InitialEndUsers
    /\ TT_Kanban_Print = InitialTags
    /\ _field_lock_states \in PriorRegistries
    /\ lot_structure \in LotStructures
    /\ now = 1
    /\ pc = [t \in Threads |-> "idle"]
    /\ req = [t \in Threads |-> Idle]
    /\ loc = [t \in Threads |-> Idle]
    /\ ret = [t \in Threads |-> Idle]
    /\ calls = [t \in Threads |-> NoCalls]
    /\ history = <<>>

NextSeq ==
    \/ \E k \in LockKeys : SeqLockFieldsLookup(k)
    \/ SeqLockFieldsClock
    \/ SeqLockFieldsFinish
    \/ \E k \in LockKeys : SeqUnlockFields(k)
    \/ \E k \in LockKeys : SeqIsFieldsLocked(k)
    \/ \E part \in ChangingParts, cell \in LotLockCells : SetLotLockType(part, cell)

SpecSeq == InitSeq /\ [][NextSeq]_vars

-----------------------------------------------------------------------------
(* The tag operations: print, re-print, rework *)

\* A Python str is modelled as the sequence of its characters, so that split,
\* startswith and int read it as the code does.  A character is written as
\* itself when it is a printable ASCII character or one of \t \n \r \f, and
\* as "U+" followed by its code point in hexadecimal (four digits at least)
\* otherwise: "U+000B" is the vertical tab.  An Optional[str] that is
\* None is NoneText, an Optional[int] is <<n>> or NoneInt, a missing row or
\* data object is NoRow.
NoneText == <<None>>
NoneInt == <<>>

NoResultMessage ==
    <<"N", "o", " ", "r", "e", "s", "u", "l", "t", " ", "f", "r", "o", "m",
      " ", "s", "t", "o", "r", "e", "d", " ", "p", "r", "o", "c", "e", "d",
      "u", "r", "e">>

PrintFailedMessage ==
    <<"P", "r", "i", "n", "t", " ", "f", "a", "i", "l", "e", "d">>

ReworkPrintFailedMessage ==
    <<"R", "e", "w", "o", "r", "k", " ", "p", "r", "i", "n", "t", " ", "f",
      "a", "i", "l", "e", "d">>

PrintedMessage ==
    <<"Q", "R", " ", "T", "a", "g", " ", "P", "r", "i", "n", "t", "e", "d",
      " ", "S", "u", "c", "c", "e", "s", "s", "f", "u", "l", "l", "y", "!">>

SupervisorFailedMessage ==
    <<"S", "u", "p", "e", "r", "v", "i", "s", "o", "r", " ", "a", "u", "t",
      "h", "e", "n", "t", "i", "c", "a", "t", "i", "o", "n", " ", "f", "a",
      "i", "l", "e", "d", " ", "o", "r", " ", "i", "n", "s", "u", "f", "f",
      "i", "c", "i", "e", "n", "t", " ", "r", "i", "g", "h", "t", "s">>

\* str.startswith
startswith(s, prefix) ==
    /\ Len(s) >= Len(prefix)
    /\ SubSeq(s, 1, Len(prefix)) = prefix

\* A split that leaves the empty fields out, as str.split() without a
\* separator does.
RECURSIVE split_drops_empty(_, _)
split_drops_empty(s, sep) ==
    IF \A i \in 1..Len(s) : s[i] # sep
    THEN IF s = <<>> THEN <<>> ELSE <<s>>
    ELSE LET at == CHOOSE i \in 1..Len(s) :
                       s[i] = sep /\ \A j \in 1..(i - 1) : s[j] # sep
         IN  (IF at = 1 THEN <<>> ELSE <<SubSeq(s, 1, at - 1)>>)
             \o split_drops_empty(SubSeq(s, at + 1, Len(s)), sep)

\* str.split(sep) for a one-character separator: the fields between the
\* separators, the empty ones included.
RECURSIVE split(_, _)
split(s, sep) ==
    IF \A i \in 1..Len(s) : s[i] # sep
    THEN <<s>>
    ELSE LET at == CHOOSE i \in 1..Len(s) :
                       s[i] = sep /\ \A j \in 1..(i - 1) : s[j] # sep
         IN  <<SubSeq(s, 1, at - 1)>> \o split(SubSeq(s, at + 1, Len(s)), sep)

HexDigit(d) ==
    CASE d = 0 -> "0" [] d = 1 -> "1" [] d = 2 -> "2" [] d = 3 -> "3"
      [] d = 4 -> "4" [] d = 5 -> "5" [] d = 6 -> "6" [] d = 7 -> "7"
      [] d = 8 -> "8" [] d = 9 -> "9" [] d = 10 -> "A" [] d = 11 -> "B"
      [] d = 12 -> "C" [] d = 13 -> "D" [] d = 14 -> "E" [] d = 15 -> "F"

RECURSIVE Hex(_)
Hex(n) == IF n < 16 THEN HexDigit(n) ELSE Hex(n \div 16) \o HexDigit(n % 16)

\* The character with code point n, for a character that is not written as
\* itself.
CodePoint(n) ==
    "U+" \o (IF n < 16 THEN "000" ELSE IF n < 256 THEN "00"
             ELSE IF n < 4096 THEN "0" ELSE "") \o Hex(n)

\* The characters int() ignores before and after the digits: the white space
\* of C (blank, \t, \n, vertical tab, \f, \r) and the characters above ASCII
\* that str.isspace() accepts.  The separators 0x1c-0x1f are not among them.
Whitespace ==
    {" ", "\t", "\n", "\r", "\f"} \cup
    { CodePoint(n) : n \in {\HB, \H85, \HA0, \H1680, \H2028, \H2029, \H202F,
                           \H205F, \H3000} \cup (\H2000)..(\H200A) }

\* What int() drops at the two ends of its text
RECURSIVE strip(_)
strip(s) ==
    IF s # <<>> /\ Head(s) \in Whitespace THEN strip(Tail(s))
    ELSE IF s # <<>> /\ s[Len(s)] \in Whitespace
    THEN strip(SubSeq(s, 1, Len(s) - 1))
    ELSE s

\* The code points of the digits zero of Unicode 14 (category Nd) above
\* ASCII; the digits one to nine follow each of them.
DecimalDigitZeros ==
    { \H660, \H6F0, \H7C0, \H966, \H9E6, \HA66, \HAE6, \HB66, \HBE6,
      \HC66, \HCE6, \HD66, \HDE6, \HE50, \HED0, \HF20, \H1040, \H1090,
      \H17E0, \H1810, \H1946, \H19D0, \H1A80, \H1A90, \H1B50, \H1BB0,
      \H1C40, \H1C50, \HA620, \HA8D0, \HA900, \HA9D0, \HA9F0, \HAA50,
      \HABF0, \HFF10, \H104A0, \H10D30, \H11066, \H110F0, \H11136,
      \H111D0, \H112F0, \H11450, \H114D0, \H11650, \H116C0, \H11730,
      \H118E0, \H11950, \H11C50, \H11D50, \H11DA0, \H16A60, \H16AC0,
      \H16B50, \H1D7CE, \H1D7D8, \H1D7E2, \H1D7EC, \H1D7F6, \H1E140,
      \H1E2F0, \H1E950, \H1FBF0 }

\* The decimal value of every digit above ASCII
UnicodeDigitValue ==
    LET valued == { <<CodePoint(zero + d), d>> :
                        zero \in DecimalDigitZeros, d \in 0..9 }
    IN  [c \in {v[1] : v \in valued} |->
            (CHOOSE v \in valued : v[1] = c)[2]]

\* The value int() gives a character as a decimal digit, -1 for a character
\* that is none.
DigitValue(c) ==
    CASE c = "0" -> 0 [] c = "1" -> 1 [] c = "2" -> 2 [] c = "3" -> 3
      [] c = "4" -> 4 [] c = "5" -> 5 [] c = "6" -> 6 [] c = "7" -> 7
      [] c = "8" -> 8 [] c = "9" -> 9
      [] OTHER -> IF c \in DOMAIN UnicodeDigitValue
                  THEN UnicodeDigitValue[c] ELSE -1

RECURSIVE DecimalValue(_)
DecimalValue(digits) ==
    IF digits = <<>> THEN 0
    ELSE 10 * DecimalValue(SubSeq(digits, 1, Len(digits) - 1))
         + DigitValue(digits[Len(digits)])

\* TRUE iff body is a run of decimal digits in which single underscores may
\* stand between two digits ('1_0'), as an integer literal of Python allows.
IsDigitRun(body) ==
    /\ body # <<>>
    /\ \A i \in 1..Len(body) :
          \/ DigitValue(body[i]) >= 0
          \/ /\ body[i] = "_"
             /\ i > 1 /\ i < Len(body)
             /\ DigitValue(body[i - 1]) >= 0
             /\ DigitValue(body[i + 1]) >= 0

\* int(text): white space around, an optional sign, decimal digits (of any
\* script) with single underscores between them; anything else raises
\* ValueError.
int(text) ==
    LET stripped == strip(text)
        signed == stripped # <<>> /\ Head(stripped) \in {"+", "-"}
        body == IF signed THEN Tail(stripped) ELSE stripped
        digits == SelectSeq(body, LAMBDA c : DigitValue(c) >= 0)
    IN  IF ~IsDigitRun(body)
        THEN [raised |-> TRUE]
        ELSE [raised |-> FALSE,
              value |-> IF signed /\ Head(stripped) = "-"
                        THEN 0 - DecimalValue(digits)
                        ELSE DecimalValue(digits)]

\* A _safe that counts the positions from 1.
_safe_from_one(parts, idx, default) ==
    IF idx <= Len(parts) /\ idx > 0 THEN parts[idx] ELSE default

\* The decoders' helper _safe: parts[idx], counted from 0, or the default.
_safe(parts, idx, default) ==
    IF idx < Len(parts) THEN parts[idx + 1] ELSE default

\* A _safe_int that lets a text that is no integer through as None.
_safe_int_unparsed_none(parts, idx, default) ==
    IF idx < Len(parts)
    THEN LET parsed == int(parts[idx + 1])
         IN  IF parsed.raised THEN NoneInt ELSE <<parsed.value>>
    ELSE <<default>>

\* The decoders' helper _safe_int
_safe_int(parts, idx, default) ==
    IF idx < Len(parts)
    THEN LET parsed == int(parts[idx + 1])
         IN  IF parsed.raised THEN <<default>> ELSE <<parsed.value>>
    ELSE <<default>>

\* An `or` that never falls back to its second operand.
Or_first(text, other) == text

\* Python's `text or other`
Or(text, other) == IF text # <<>> THEN text ELSE other

\* The raw Result and Msg columns the stored procedures can answer with.
FullResult ==
    <<"Y", "~", "S", "~", "T", "~", "0", "0", "0", "0", "0", "0", "7", "~",
      "C", "~", "N", "E", "W", "~", "D", "~", "L", "O", "T", "1", "2", "3",
      "~", "L", "2", "~", "S", "2", "~", "1", "5", ":", "0", "0", "~", "5",
      "~", "3", "6", "0">>

ReducedResult ==
    <<"Y", "~", "S", "~", "T", "~", "0", "0", "0", "0", "0", "0", "7", "~",
      "C", "~", "N", "E", "W", "~", "D", "~", "L", "O", "T", "1", "2", "3",
      "~", "1", "5", ":", "0", "0", "~", "5", "~", "3", "6", "0">>

MinimalResult ==
    <<"Y", "~", "S", "~", "T", "~", "0", "0", "0", "0", "0", "0", "7">>

RejectedResult ==
    <<"N", "~", "S", "e", "r", "i", "a", "l", " ", "l", "i", "m", "i", "t",
      " ", "e", "x", "c", "e", "e", "d", "e", "d">>

RejectedMsg ==
    <<"S", "e", "r", "i", "a", "l", " ", "l", "i", "m", "i", "t", " ", "e",
      "x", "c", "e", "e", "d", "e", "d">>

ReworkResult ==
    <<"Y", "~", "B", "2", "~", "1", "5", ":", "0", "0", "~", "0", "0", "0",
      "0", "0", "0", "8", "~", "5", "~", "x", "~", "R", "W", "K", "~", "D">>

TagNotFoundResult ==
    <<"N", "~", "T", "a", "g", " ", "d", "o", "e", "s", " ", "n", "o", "t",
      " ", "e", "x", "i", "s", "t">>

\* The rows _fetch_sp_result can hand back for KANBAN_PRINT and
\* KANBAN_RE_PRINT: no row, or a row of the two columns under either spelling,
\* a column being NULL (None) at times.
PrintRows ==
    { NoRow,
      [Result |-> FullResult, Msg |-> PrintedMessage],
      [Result |-> ReducedResult, Msg |-> <<>>],
      [Result |-> MinimalResult, Msg |-> NoneText],
      [Result |-> RejectedResult, Msg |-> RejectedMsg],
      [RESULT |-> RejectedResult, MSG |-> <<>>],
      [Result |-> <<>>, Msg |-> RejectedMsg] }

\* The rows the rework KANBAN_PRINT can hand back.
ReworkRows ==
    { NoRow,
      [Result |-> ReworkResult, Msg |-> PrintedMessage],
      [Result |-> <<"Y", "~", "B", "2">>, Msg |-> <<>>],
      [Result |-> TagNotFoundResult, Msg |-> <<>>],
      [Result |-> <<>>, Msg |-> <<>>] }

\* A get that never finds its key.
Get_missing(row, key, default) == default

\* dict.get(key, default)
Get(row, key, default) == IF key \in DOMAIN row THEN row[key] ELSE default

\* str(value) of a column: None reads "None".
str(value) == IF value = NoneText THEN <<"N", "o", "n", "e">> ELSE value

\* print_service._parse_print_result
_parse_print_result(row) ==
    IF row = NoRow
    THEN [success |-> FALSE, message |-> NoResultMessage, data |-> NoRow]
    ELSE
    LET result_str == str(Get(row, "Result", Get(row, "RESULT", <<>>)))
        msg == str(Get(row, "Msg", Get(row, "MSG", <<>>)))
        parts == split(result_str, "~")
    IN  IF ~startswith(result_str, <<"Y">>)
        THEN [success |-> FALSE,
              message |-> Or(result_str, Or(msg, PrintFailedMessage)),
              data |-> NoRow]
        ELSE
        [success |-> TRUE,
         message |-> Or(msg, PrintedMessage),
         data |->
           IF Len(parts) >= 13
           THEN [supplier_name |-> _safe(parts, 1, <<>>),
                 traceability |-> _safe(parts, 2, <<>>),
                 serial_no |-> _safe(parts, 3, <<>>),
                 company_name |-> _safe(parts, 4, <<>>),
                 tag_type |-> _safe(parts, 5, <<>>),
                 print_date |-> _safe(parts, 6, <<>>),
                 barcode_lot1 |-> _safe(parts, 7, <<>>),
                 barcode_lot2 |-> Or(_safe(parts, 8, <<>>), NoneText),
                 serial_no_2 |-> Or(_safe(parts, 9, <<>>), NoneText),
                 print_time |-> _safe(parts, 10, <<>>),
                 no_of_tags_stock_in |-> _safe_int(parts, 11, 0),
                 total_qty_stock_in |-> _safe_int(parts, 12, 0)]
           ELSE IF Len(parts) >= 11
           THEN [supplier_name |-> _safe(parts, 1, <<>>),
                 traceability |-> _safe(parts, 2, <<>>),
                 serial_no |-> _safe(parts, 3, <<>>),
                 company_name |-> _safe(parts, 4, <<>>),
                 tag_type |-> _safe(parts, 5, <<>>),
                 print_date |-> _safe(parts, 6, <<>>),
                 barcode_lot1 |-> _safe(parts, 7, <<>>),
                 barcode_lot2 |-> NoneText,
                 serial_no_2 |-> NoneText,
                 print_time |-> _safe(parts, 8, <<>>),
                 no_of_tags_stock_in |-> _safe_int(parts, 9, 0),
                 total_qty_stock_in |-> _safe_int(parts, 10, 0)]
           ELSE [supplier_name |-> _safe(parts, 1, <<>>),
                 traceability |-> _safe(parts, 2, <<>>),
                 serial_no |-> _safe(parts, 3, <<>>),
                 company_name |-> NoneText,
                 tag_type |-> NoneText,
                 print_date |-> NoneText,
                 barcode_lot1 |-> IF Len(parts) > 7
                                  THEN _safe(parts, 7, <<>>) ELSE NoneText,
                 barcode_lot2 |-> NoneText,
                 serial_no_2 |-> NoneText,
                 print_time |-> NoneText,
                 no_of_tags_stock_in |-> NoneInt,
                 total_qty_stock_in |-> NoneInt]]

\* rework_service._parse_rework_result
_parse_rework_result(row) ==
    IF row = NoRow
    THEN [success |-> FALSE, message |-> NoResultMessage, data |-> NoRow]
    ELSE
    LET result_str == str(Get(row, "Result", Get(row, "RESULT", <<>>)))
        msg == str(Get(row, "Msg", Get(row, "MSG", <<>>)))
        parts == split(result_str, "~")
    IN  IF ~startswith(result_str, <<"Y">>)
        THEN [success |-> FALSE,
              message |-> Or(result_str, Or(msg, ReworkPrintFailedMessage)),
              data |-> NoRow]
        ELSE [success |-> TRUE,
              message |-> Or(msg, PrintedMessage),
              data |-> [barcode |-> _safe(parts, 1, <<>>),
                        print_time |-> _safe(parts, 2, <<>>),
                        serial_no |-> _safe(parts, 3, <<>>),
                        no_of_tags_stock_in |-> _safe_int(parts, 4, 0),
                        total_qty_stock_in |-> _safe_int(parts, 5, 0),
                        tag_type |-> _safe(parts, 6, <<>>),
                        print_date |-> _safe(parts, 7, <<>>)]]

\* The barcodes a request can carry: a tag on record, one that is not, none.
Barcodes == { <<"B", "1">>, <<"B", "4", "0", "4">>, <<>> }

\* What the print procedures do to TT_Kanban_Print.  PRC_PrintKanban and
\* PRC_Print_Rework_Kanban are no part of the repository's source; what they
\* write is taken from the docstrings of print_dal and rework_dal.  A
\* procedure that answers with the success marker 'Y' as the first field of
\* its result has written the tag whose barcode the result names in the
\* field at position at (when it has that field), and has then also deleted
\* the row of the old barcode; any other answer writes nothing.
Written(row, at) ==
    IF row = NoRow THEN [done |-> FALSE, tags |-> {}]
    ELSE LET parts == split(str(Get(row, "Result", Get(row, "RESULT", <<>>))),
                            "~")
         IN  [done |-> parts[1] = <<"Y">>,
              tags |-> IF Len(parts) > at THEN {parts[at + 1]} ELSE {}]

\* The tables a call of one of the three executors can leave behind.  The
\* DAL opens its connection with autocommit off (utils/database.py,
\* pyodbc.connect without autocommit) and closes it without conn.commit(),
\* so what the procedure wrote in the connection's transaction is rolled
\* back at conn.close(): the table stays as it was.  A procedure that
\* commits its own work leaves the write behind; its text is no part of the
\* source, so that table is an outcome as well.

\* print_dal.kanban_print: "INSERTs into TT_Kanban_Print".
kanban_print(tags, row) ==
    {tags} \cup
    (IF Written(row, 7).done THEN {tags \cup Written(row, 7).tags} ELSE {})

\* print_dal.kanban_reprint: "Deletes old barcode row", "INSERTs replacement
\* row into TT_Kanban_Print".
kanban_reprint(tags, old_barcode, row) ==
    {tags} \cup
    (IF Written(row, 7).done
     THEN {(tags \ {old_barcode}) \cup Written(row, 7).tags}
     ELSE {})

\* rework_dal.rework_print: "Inserts new rework tag into TT_Kanban_Print",
\* "Deletes old barcode".
rework_print(tags, barcode, row) ==
    {tags} \cup
    (IF Written(row, 1).done
     THEN {(tags \ {barcode}) \cup Written(row, 1).tags}
     ELSE {})

\* print_service.print_tag: the executor call and the decoding of its row.
PrintTag(t, row) ==
    /\ pc[t] = "idle"
    /\ ret' = [ret EXCEPT ![t] = [op |-> "print_tag", row |-> row,
                                  response |-> _parse_print_result(row)]]
    /\ calls' = [calls EXCEPT ![t] = [NoCalls EXCEPT !.executor = 1]]
    /\ TT_Kanban_Print' \in kanban_print(TT_Kanban_Print, row)
    /\ UNCHANGED <<TM_Supplier_End_User, _field_lock_states, lot_structure,
                   now, pc, req, loc, history>>

\* print_service.reprint_tag up to the first read of the user table by the
\* supervisor lookup's batch, which sets @gName1.
ReprintTagValidate(t, cred, old_barcode) ==
    /\ Enter(t, "reprint_tag_select",
             [op |-> "reprint_tag", user_id |-> cred[1], password |-> cred[2],
              old_barcode |-> old_barcode],
             [gName |-> GroupNameOf(TM_Supplier_End_User, cred[1],
                                    hash_password(cred[2]))],
             [NoCalls EXCEPT !.validate_device_supervisor = 1])
    /\ UNCHANGED <<TM_Supplier_End_User, TT_Kanban_Print, _field_lock_states,
                   lot_structure, now, history>>

\* The rest of the supervisor lookup's batch, with its second read of the
\* user table, and the lookup's return.
ReprintTagSelect(t) ==
    /\ pc[t] = "reprint_tag_select"
    /\ pc' = [pc EXCEPT ![t] = "reprint_tag"]
    /\ loc' = [loc EXCEPT ![t] =
                  [supervisor_row |->
                       SupervisorBatchEnd(loc[t].gName, TM_Supplier_End_User,
                                          req[t].user_id, req[t].password)]]
    /\ UNCHANGED <<TM_Supplier_End_User, TT_Kanban_Print, _field_lock_states,
                   lot_structure, now, req, ret, calls, history>>

\* A re-print that calls the executor a second time when the first call
\* brought no row or a failure.
ReprintTagFinish_retries(t, row) ==
    /\ pc[t] = "reprint_tag"
    /\ ~SupervisorRejected(loc[t].supervisor_row)
    /\ calls' = [calls EXCEPT ![t].executor = @ + 1]
    /\ IF ~_parse_print_result(row).success /\ calls[t].executor = 0
       THEN UNCHANGED <<pc, req, loc, ret>>
       ELSE /\ pc' = [pc EXCEPT ![t] = "idle"]
            /\ req' = [req EXCEPT ![t] = Idle]
            /\ loc' = [loc EXCEPT ![t] = Idle]
            /\ ret' = [ret EXCEPT ![t] =
                          [op |-> "reprint_tag", request |-> req[t], row |-> row,
                           response |-> _parse_print_result(row)]]
    /\ TT_Kanban_Print' \in kanban_reprint(TT_Kanban_Print, req[t].old_barcode, row)
    /\ UNCHANGED <<TM_Supplier_End_User, _field_lock_states, lot_structure,
                   now, history>>

\* print_service.reprint_tag from the lookup's return on: the refusal, or the
\* executor call and the decoding of its row.
ReprintTagFinish(t, row) ==
    /\ pc[t] = "reprint_tag"
    /\ pc' = [pc EXCEPT ![t] = "idle"]
    /\ req' = [req EXCEPT ![t] = Idle]
    /\ loc' = [loc EXCEPT ![t] = Idle]
    /\ IF SupervisorRejected(loc[t].supervisor_row)
       THEN /\ ret' = [ret EXCEPT ![t] =
                          [op |-> "reprint_tag", request |-> req[t],
                           response |-> [success |-> FALSE,
                                         message |-> SupervisorFailedMessage,
                                         data |-> NoRow]]]
            /\ UNCHANGED <<calls, TT_Kanban_Print>>
       ELSE /\ ret' = [ret EXCEPT ![t] =
                          [op |-> "reprint_tag", request |-> req[t], row |-> row,
                           response |-> _parse_print_result(row)]]
            /\ calls' = [calls EXCEPT ![t].executor = @ + 1]
            /\ TT_Kanban_Print' \in
                  kanban_reprint(TT_Kanban_Print, req[t].old_barcode, row)
    /\ UNCHANGED <<TM_Supplier_End_User, _field_lock_states, lot_structure,
                   now, history>>

\* rework_service.rework_print: the executor call and the decoding of its row.
ReworkPrint(t, barcode, row) ==
    /\ pc[t] = "idle"
    /\ ret' = [ret EXCEPT ![t] = [op |-> "rework_print",
                                  request |-> [op |-> "rework_print",
                                               barcode |-> barcode],
                                  row |-> row,
                                  response |-> _parse_rework_result(row)]]
    /\ calls' = [calls EXCEPT ![t] = [NoCalls EXCEPT !.executor = 1]]
    /\ TT_Kanban_Print' \in rework_print(TT_Kanban_Print, barcode, row)
    /\ UNCHANGED <<TM_Supplier_End_User, _field_lock_states, lot_structure,
                   now, pc, req, loc, history>>

\* The service right after its start: nobody has been served, no key is
\* locked, every part has the lot structure 'STANDARD'.
InitAuth ==
    /\ TM_Supplier_End_User = InitialEndUsers
    /\ TT_Kanban_Print = InitialTags
    /\ _field_lock_states = <<>>
    /\ lot_structure = [part \in SupplierPartNos |-> "STANDARD"]
    /\ now = 0
    /\ pc = [t \in Threads |-> "idle"]
    /\ req = [t \in Threads |-> Idle]
    /\ loc = [t \in Threads |-> Idle]
    /\ ret = [t \in Threads |-> Idle]
    /\ calls = [t \in Threads |-> NoCalls]
    /\ history = <<>>

\* A success of eight fields that names the tag 'B2' as its barcode.
TagResult ==
    <<"Y", "~", "S", "~", "T", "~", "0", "0", "0", "0", "0", "0", "7", "~",
      "C", "~", "N", "E", "W", "~", "D", "~", "B", "2">>

\* The rows the executors hand back to the tag operations made side by side:
\* no row, a success, a rejection.
TagRows ==
    { NoRow,
      [Result |-> TagResult, Msg |-> PrintedMessage],
      [Result |-> RejectedResult, Msg |-> RejectedMsg] }
TagReworkRows ==
    { NoRow,
      [Result |-> ReworkResult, Msg |-> PrintedMessage],
      [Result |-> TagNotFoundResult, Msg |-> <<>>] }

\* The supervisor credentials the re-prints carry here: the supervisor's
\* password, the password the supervisor's is changed to, and an operator's.
TagCredentials == { <<"sup", "pw">>, <<"sup", "bad">>, <<"oper", "pw">> }
\* The old barcodes the re-prints carry here: a tag on record, and none.
TagBarcodes == { <<"B", "1">>, <<>> }

NextTag ==
    \/ \E t \in Threads, row \in TagRows : PrintTag(t, row)
    \/ \E t \in Threads, cred \in TagCredentials, old_barcode \in TagBarcodes :
           ReprintTagValidate(t, cred, old_barcode)
    \/ \E t \in Threads : ReprintTagSelect(t)
    \/ \E t \in Threads, row \in TagRows : ReprintTagFinish(t, row)
    \/ \E t \in Threads, barcode \in Barcodes, row \in TagReworkRows :
           ReworkPrint(t, barcode, row)
    \/ \E t \in Threads, a \in Registrations : RegisterUserInsert(t, a)
    \/ \E t \in Threads : RegisterUserPatch(t)
    \/ \E t \in Threads, a \in Demotions : UpdateUserUpdate(t, a)
    \/ \E t \in Threads : UpdateUserPatch(t)
    \/ \E t \in Threads, user_id \in Deletions : DeleteUser(t, user_id)
    \/ \E t \in Threads, a \in PasswordChanges : ChangePassword(t, a)

SpecTag == InitAuth /\ [][NextTag]_vars

-----------------------------------------------------------------------------
(* The result decoders applied to one stored-procedure row *)

\* The fields of the result string the print_service docstring and the
\* specification give as their example, and a rejection text that begins
\* with the letter of the success marker.
SampleFields ==
    << <<"Y">>,
       <<"A", "c", "m", "e">>,
       <<"T", "r", "a", "c", "e", "a", "b", "i", "l", "i", "t", "y", " ",
         "T", "a", "g">>,
       <<"0", "0", "0", "0", "0", "0", "7">>,
       <<"C", "O", "M", "P", "0", "1">>,
       <<"N", "E", "W">>,
       <<"2", "2", "/", "0", "2", "/", "2", "0", "2", "6">>,
       <<"L", "O", "T", "1", "2", "3">>,
       <<"L", "O", "T", "4", "5", "6">>,
       <<"S", "N", "2">>,
       <<"1", "5", ":", "0", "0", ":", "0", "0">>,
       <<"5">>,
       <<"3", "6", "0">> >>

YieldLimitReached ==
    <<"Y", "i", "e", "l", "d", " ", "l", "i", "m", "i", "t", " ", "r", "e",
      "a", "c", "h", "e", "d">>

\* The first fields a result string can open with, the texts of its further
\* fields, and the Msg column next to it.  The "loose" fields are numbers as
\* int() still reads them (white space around, an underscore between
\* digits), the "broken" ones have an underscore where int() allows none, the
\* "foreign" ones hold characters above ASCII and control characters: white
\* space int() ignores (vertical tab, no-break space, ideographic space),
\* digits of other scripts (Arabic-Indic, fullwidth), and the separator 0x1c,
\* which int() refuses.
FirstFields == { <<"Y">>, <<"Y", "E", "S">>, <<"N">>, <<>>, YieldLimitReached }
Fills == {"sample", "empty", "words", "numbers", "loose", "broken", "foreign"}
Msgs == { <<>>, <<"O", "K">>, NoneText }
DecodeKinds == {"print_tag", "reprint_tag", "rework_print"}

DigitChar(d) ==
    CASE d = 0 -> "0" [] d = 1 -> "1" [] d = 2 -> "2" [] d = 3 -> "3"
      [] d = 4 -> "4" [] d = 5 -> "5" [] d = 6 -> "6" [] d = 7 -> "7"
      [] d = 8 -> "8" [] d = 9 -> "9"

\* The decimal digits of a natural number
RECURSIVE Decimal(_)
Decimal(n) ==
    IF n < 10 THEN <<DigitChar(n)>>
    ELSE Decimal(n \div 10) \o <<DigitChar(n % 10)>>

\* The text of the field at position idx (counted from 0, idx > 0)
FieldText(idx, fill) ==
    CASE fill = "sample" ->
             IF idx < Len(SampleFields) THEN SampleFields[idx + 1] ELSE <<"X">>
      [] fill = "empty" -> <<>>
      [] fill = "words" -> <<"f">> \o Decimal(idx)
      [] fill = "numbers" -> Decimal(idx)
      [] fill = "loose" ->
             IF idx % 2 = 0 THEN <<"\t">> \o Decimal(idx) \o <<" ", "\n">>
             ELSE <<"1", "_">> \o Decimal(idx)
      [] fill = "broken" ->
             IF idx % 2 = 0 THEN Decimal(idx) \o <<"_">>
             ELSE <<"1", "_", "_">> \o Decimal(idx)
      [] fill = "foreign" ->
             IF idx % 3 = 0
             THEN <<"U+000B">> \o Decimal(idx) \o <<"U+00A0", "U+3000">>
             ELSE IF idx % 3 = 1
             THEN <<CodePoint(\H660 + (idx % 10)), "_",
                    CodePoint(\HFF10 + (idx % 10))>>
             ELSE <<"U+001C">> \o Decimal(idx)

\* The fields of a result string of n fields
ResultFields(first, n, fill) ==
    [i \in 1..n |-> IF i = 1 THEN first ELSE FieldText(i - 1, fill)]

\* sep.join(fields): the stored procedure's concatenation of its fields
RECURSIVE join(_, _)
join(fields, sep) ==
    IF Len(fields) = 0 THEN <<>>
    ELSE IF Len(fields) = 1 THEN fields[1]
    ELSE fields[1] \o <<sep>> \o join(Tail(fields), sep)

\* The row of the two columns under either spelling of their names
ResultRow(columns, result, msg) ==
    IF columns = "Result" THEN [Result |-> result, Msg |-> msg]
    ELSE [RESULT |-> result, MSG |-> msg]

\* The largest number of fields of a generated result string
MaxFields == 14

\* The rows handed to a decoder: result strings joined from their fields, and
\* rows that are no such string (no row, a NULL Result, neither column, the
\* rows of the tag operations, a rejection whose text is the decoder's own
\* no-row message).  fields is <<>> for the latter.
JoinedInputs ==
    { [op |-> "decode", kind |-> kind,
       fields |-> ResultFields(first, n, fill),
       row |-> ResultRow(columns, join(ResultFields(first, n, fill), "~"), msg)] :
      kind \in DecodeKinds, first \in FirstFields, n \in 1..MaxFields,
      fill \in Fills, msg \in Msgs, columns \in {"Result", "RESULT"} }

GivenRows ==
    PrintRows \cup ReworkRows \cup
    { [Result |-> NoneText, Msg |-> <<>>],
      [Result |-> NoneText, Msg |-> <<"O", "K">>],
      [Barcode |-> <<"B", "1">>],
      [Result |-> NoResultMessage, Msg |-> <<>>],
      [Result |-> RejectedResult, Msg |-> <<>>] }

DecodeInputs ==
    JoinedInputs \cup
    { [op |-> "decode", kind |-> kind, fields |-> <<>>, row |-> row] :
      kind \in DecodeKinds, row \in GivenRows }

\* A decoding that takes a missing row for an empty one (`row or {}`).
decode_no_row_as_empty(kind, row) ==
    LET given == IF row = NoRow THEN [Result |-> <<>>, Msg |-> <<>>] ELSE row
    IN  IF kind = "rework_print" THEN _parse_rework_result(given)
        ELSE _parse_print_result(given)

\* The decoder each tag operation hands its row to
decode(kind, row) ==
    IF kind = "rework_print" THEN _parse_rework_result(row)
    ELSE _parse_print_result(row)

\* A tag operation decodes the row its executor returned.
Decode(t) ==
    /\ pc[t] = "decode"
    /\ pc' = [pc EXCEPT ![t] = "idle"]
    /\ req' = [req EXCEPT ![t] = Idle]
    /\ ret' = [ret EXCEPT ![t] =
                  [op |-> "decode", kind |-> req[t].kind, fields |-> req[t].fields,
                   row |-> req[t].row,
                   response |-> decode(req[t].kind, req[t].row)]]
    /\ UNCHANGED <<TM_Supplier_End_User, TT_Kanban_Print, _field_lock_states,
                   lot_structure, now, loc, calls, history>>

InitDecode ==
    /\ TM_Supplier_End_User = InitialEndUsers
    /\ TT_Kanban_Print = InitialTags
    /\ _field_lock_states = <<>>
    /\ lot_structure = [part \in SupplierPartNos |-> "STANDARD"]
    /\ now = 0
    /\ \E t \in Threads, input \in DecodeInputs :
          /\ pc = [u \in Threads |-> IF u = t THEN "decode" ELSE "idle"]
          /\ req = [u \in Threads |-> IF u = t THEN input ELSE Idle]
    /\ loc = [t \in Threads |-> Idle]
    /\ ret = [t \in Threads |-> Idle]
    /\ calls = [t \in Threads |-> NoCalls]
    /\ history = <<>>

NextDecode == \E t \in Threads : Decode(t)

SpecDecode == InitDecode /\ [][NextDecode]_vars

-----------------------------------------------------------------------------
(* The supervisor-gated operations, re-print and unlock, side by side *)

\* The executor rows and the old barcode of the re-prints made next to the
\* lock and unlock requests.
GateRows == { NoRow, [Result |-> ReducedResult, Msg |-> <<>>],
              [Result |-> RejectedResult, Msg |-> RejectedMsg] }
GateBarcodes == { <<"B", "1">> }

\* The key the lock and unlock requests made next to the re-prints name.
GateKeys == { <<"P", "S", "S:PL", "ST">> }

NextGate ==
    \/ \E t \in Threads, k \in GateKeys : LockFieldsLookup(t, k)
    \/ \E t \in Threads : LockFieldsClock(t)
    \/ \E t \in Threads : LockFieldsFinish(t)
    \/ \E t \in Threads, cred \in Credentials, k \in GateKeys :
           UnlockFieldsValidate(t, cred, k)
    \/ \E t \in Threads : UnlockFieldsSelect(t)
    \/ \E t \in Threads : UnlockFieldsFinish(t)
    \/ \E t \in Threads, k \in GateKeys : LockFieldsEndpoint(t, k)
    \/ \E t \in Threads, cred \in Credentials, k \in GateKeys :
           UnlockFieldsEndpoint(t, cred, k)
    \/ \E t \in Threads, cred \in Credentials, old_barcode \in GateBarcodes :
           ReprintTagValidate(t, cred, old_barcode)
    \/ \E t \in Threads : ReprintTagSelect(t)
    \/ \E t \in Threads, row \in GateRows : ReprintTagFinish(t, row)
    \/ \E t \in Threads, a \in Demotions : UpdateUserUpdate(t, a)
    \/ \E t \in Threads : UpdateUserPatch(t)
    \/ \E t \in Threads, user_id \in Deletions : DeleteUser(t, user_id)
    \/ \E t \in Threads, a \in PasswordChanges : ChangePassword(t, a)

SpecGate == InitAuth /\ [][NextGate]_vars

-----------------------------------------------------------------------------
(* Authentication: app login, traceability-user lookup, supervisor login
   (traceability_repo sections 1-3, traceability_service sections 1-3) *)

\* TM_Supplier_UserMaster rows: the supplier-admin accounts.
TM_Supplier_UserMaster ==
    { [UserID |-> "admin",   Password |-> hash_password("pw"), GroupID |-> "A1",
       IsSupplier |-> "Y"],
      [UserID |-> "unmapped", Password |-> hash_password("pw"), GroupID |-> "A1",
       IsSupplier |-> "Y"],
      [UserID |-> "dual",    Password |-> hash_password("pw"), GroupID |-> "A1",
       IsSupplier |-> "Y"],
      [UserID |-> "clerk",   Password |-> hash_password("pw"), GroupID |-> "A1",
       IsSupplier |-> SqlNull] }

\* TM_Group rows: the groups of the admin accounts.
TM_Group == { [GroupID |-> "A1", GroupName |-> "Supplier Admin"] }

\* The supplier codes of the plant records: TM_Supplier_Plant(PlantCode,
\* SupplierCode), read by the plant join of the login query.
PlantSupplierCodes == { [PlantCode |-> "PL", SupplierCode |-> "S"] }

\* The (user_id, password) pairs the authentication endpoints receive.
AuthCredentials ==
    { <<"sup", "pw">>, <<"sup", "bad">>, <<"oper", "pw">>, <<"noplant", "pw">>,
      <<"lead", "pw">>, <<"far", "pw">>, <<"nogroup", "pw">>,
      <<"admin", "pw">>, <<"unmapped", "pw">>, <<"dual", "pw">>,
      <<"clerk", "pw">> }

\* Path 1 of validate_user_pc: the admin rows the first query selects.
AdminRows(user_id, hashed_pwd) ==
    { um \in TM_Supplier_UserMaster :
          /\ um.UserID = user_id
          /\ um.Password = hashed_pwd
          /\ um.IsSupplier = "Y"
          /\ \E gm \in TM_Group : gm.GroupID = um.GroupID }

\* Path 2 of validate_user_pc: the end-user rows the second query selects.
EndUserRows(table, user_id, hashed_pwd) ==
    { um \in table :
          /\ um.UserID = user_id
          /\ um.Password = hashed_pwd
          /\ \E gm \in TM_Supplier_GROUP : gm.GroupID = um.GroupID }

\* The characters of the supplier codes the tables of the model hold.
Characters(code) ==
    CASE code = "" -> <<>>
      [] code = "S" -> <<"S">>
      [] code = "T" -> <<"T">>
      [] code = "SS" -> <<"S", "S">>
      [] code = " S " -> <<" ", "S", " ">>
      [] code = "S,T" -> <<"S", ",", "T">>
      [] code = "S, T" -> <<"S", ",", " ", "T">>
      [] code = "T,U" -> <<"T", ",", "U">>
      [] code = " T,S " -> <<" ", "T", ",", "S", " ">>

\* LTRIM and RTRIM of Transact-SQL: the blanks at one end go.
RECURSIVE LTRIM(_)
LTRIM(text) ==
    IF text # <<>> /\ Head(text) = " " THEN LTRIM(Tail(text)) ELSE text

RECURSIVE RTRIM(_)
RTRIM(text) ==
    IF text # <<>> /\ text[Len(text)] = " "
    THEN RTRIM(SubSeq(text, 1, Len(text) - 1)) ELSE text

\* ',' + LTRIM(RTRIM(um.SupplierCode)) + ',' LIKE
\* '%,' + LTRIM(RTRIM(P.SupplierCode)) + ',%': the plant's supplier code is
\* one of the comma-separated codes of the user.  (The plant codes of the
\* model hold no LIKE wildcard.)
SupplierCodeListed(user_code, plant_code) ==
    LET listed == <<",">> \o LTRIM(RTRIM(Characters(user_code))) \o <<",">>
        sought == <<",">> \o LTRIM(RTRIM(Characters(plant_code))) \o <<",">>
    IN  \E i \in 1..(Len(listed) - Len(sought) + 1) :
            SubSeq(listed, i, i + Len(sought) - 1) = sought

\* ISNULL(P.PlantName, '') of the login query's LEFT JOIN, which matches a
\* plant record on PlantCode and on the user's list of supplier codes.
LoginPlantName(um) ==
    IF \E ps \in PlantSupplierCodes :
           /\ ps.PlantCode = um.SupplierPlantCode
           /\ SupplierCodeListed(um.SupplierCode, ps.SupplierCode)
    THEN PlantNameOf(um.SupplierPlantCode)
    ELSE ""

\* A lookup that goes on to the end-user table when an admin has no supplier
\* mapping.
validate_user_pc_falls_through(user_id, password) ==
    LET hashed_pwd == hash_password(password)
        admins == AdminRows(user_id, hashed_pwd)
        users == EndUserRows(TM_Supplier_End_User, user_id, hashed_pwd)
        mapped == \E mp \in TM_SuppUser_SuppCode_Mapping : mp.UserID = user_id
    IN  IF admins # {} /\ mapped
        THEN LET um == CHOOSE r \in admins : TRUE
                 gm == CHOOSE g \in TM_Group : g.GroupID = um.GroupID
             IN  [row |-> [RESULT |-> "Y", UserID |-> um.UserID,
                           GroupName |-> gm.GroupName,
                           IsSupplier |-> um.IsSupplier,
                           SupplierCode |-> "", SupplierPlantCode |-> "",
                           PlantName |-> ""],
                  queried |-> <<"TM_Supplier_UserMaster",
                                "TM_SuppUser_SuppCode_Mapping">>]
        ELSE IF users # {}
        THEN LET um == CHOOSE r \in users : TRUE
                 gm == CHOOSE g \in TM_Supplier_GROUP : g.GroupID = um.GroupID
             IN  [row |-> [RESULT |-> "Y", UserID |-> um.UserID,
                           GroupName |-> gm.GroupName, IsSupplier |-> "N",
                           SupplierCode |-> um.SupplierCode,
                           SupplierPlantCode |-> um.SupplierPlantCode,
                           PlantName |-> LoginPlantName(um)],
                  queried |-> <<"TM_Supplier_UserMaster", "TM_Supplier_End_User">>]
        ELSE [row |-> NoRow,
              queried |-> <<"TM_Supplier_UserMaster", "TM_Supplier_End_User">>]

\* traceability_repo.validate_user_pc: the row it returns and the tables it
\* has queried, in order.
validate_user_pc(user_id, password) ==
    LET hashed_pwd == hash_password(password)
        admins == AdminRows(user_id, hashed_pwd)
        users == EndUserRows(TM_Supplier_End_User, user_id, hashed_pwd)
    IN  IF admins # {}
        THEN LET um == CHOOSE r \in admins : TRUE
                 gm == CHOOSE g \in TM_Group : g.GroupID = um.GroupID
             IN  IF \E mp \in TM_SuppUser_SuppCode_Mapping : mp.UserID = user_id
                 THEN [row |-> [RESULT |-> "Y", UserID |-> um.UserID,
                                GroupName |-> gm.GroupName,
                                IsSupplier |-> um.IsSupplier,
                                SupplierCode |-> "", SupplierPlantCode |-> "",
                                PlantName |-> ""],
                       queried |-> <<"TM_Supplier_UserMaster",
                                     "TM_SuppUser_SuppCode_Mapping">>]
                 ELSE [row |-> [RESULT |-> "N",
                                MSG |-> "No User mapped with supplier"],
                       queried |-> <<"TM_Supplier_UserMaster",
                                     "TM_SuppUser_SuppCode_Mapping">>]
        ELSE IF users # {}
        THEN LET um == CHOOSE r \in users : TRUE
                 gm == CHOOSE g \in TM_Supplier_GROUP : g.GroupID = um.GroupID
             IN  [row |-> [RESULT |-> "Y", UserID |-> um.UserID,
                           GroupName |-> gm.GroupName, IsSupplier |-> "N",
                           SupplierCode |-> um.SupplierCode,
                           SupplierPlantCode |-> um.SupplierPlantCode,
                           PlantName |-> LoginPlantName(um)],
                  queried |-> <<"TM_Supplier_UserMaster", "TM_Supplier_End_User">>]
        ELSE [row |-> NoRow,
              queried |-> <<"TM_Supplier_UserMaster", "TM_Supplier_End_User">>]

\* The screens whose view right admits an operator to the tag screen.
OperatorScreens == {"3001", "2003"}

\* The last statement of validate_user's batch, reading table.  The plant
\* name comes back in the PASSWORD column.
UserSelect(table, user_id, hashed_pwd) ==
    LET rows == EndUserRows(table, user_id, hashed_pwd)
    IN  IF rows # {}
        THEN LET u == CHOOSE r \in rows : TRUE
                 gm == CHOOSE g \in TM_Supplier_GROUP : g.GroupID = u.GroupID
             IN  [none |-> FALSE,
                  UserID |-> u.UserID,
                  SupplierCode |-> u.SupplierCode,
                  SupplierPlantCode |-> u.SupplierPlantCode,
                  PackingStation |-> u.PackingStation,
                  GroupName |-> gm.GroupName,
                  PASSWORD |-> PlantNameOf(u.SupplierPlantCode)]
        ELSE NoRow

\* validate_user's batch from its IF EXISTS on, @gName being gName.
UserBatchEnd(gName, table, user_id, password) ==
    IF HasViewRight(gName, OperatorScreens)
    THEN UserSelect(table, user_id, hash_password(password))
    ELSE NoRow

\* traceability_repo.validate_user.  As in validate_device_supervisor, the
\* batch reads TM_Supplier_End_User twice: first is the table as the
\* statement that sets @gID finds it, last the table as the final SELECT
\* finds it.  The result is the user's row, or NoRow.
validate_user(first, last, user_id, password) ==
    UserBatchEnd(GroupNameOf(first, user_id, hash_password(password)),
                 last, user_id, password)

-----------------------------------------------------------------------------
(* JWT tokens (app/utils/jwt_handler.py); the clock counts minutes *)

SECRET_KEY == "d-trace-supplier-end-user-api-secret-key-2026"
ACCESS_TOKEN_EXPIRE_MINUTES == 30
REFRESH_TOKEN_EXPIRE_DAYS == 7
\* timedelta(days=REFRESH_TOKEN_EXPIRE_DAYS), in minutes.
RefreshLifetime == REFRESH_TOKEN_EXPIRE_DAYS * 24 * 60

\* jwt.encode(payload, key): the token carries its payload and the key that
\* signed it.
jwt_encode(payload, key) ==
    [wellformed |-> TRUE, payload |-> payload, signed_with |-> key]

\* jwt_handler.create_access_token at time clock.
create_access_token(data, clock) ==
    jwt_encode(DictSet(DictSet(data, "exp", clock + ACCESS_TOKEN_EXPIRE_MINUTES),
                       "type", "access"),
               SECRET_KEY)

\* jwt_handler.create_refresh_token at time clock.
create_refresh_token(data, clock) ==
    jwt_encode(DictSet(DictSet(data, "exp", clock + RefreshLifetime),
                       "type", "refresh"),
               SECRET_KEY)

\* jwt.decode(token, key) at time clock: the payload, or the error raised.
\* The signature is verified before the expiry claim.
jwt_decode(token, key, clock) ==
    IF ~token.wellformed \/ token.signed_with # key
    THEN [raised |-> "InvalidTokenError"]
    ELSE IF "exp" \in DOMAIN token.payload /\ token.payload["exp"] <= clock
    THEN [raised |-> "ExpiredSignatureError"]
    ELSE [raised |-> "", payload |-> token.payload]

\* A verification that asks for no token type.
verify_token_any_type(token, expected_type, clock) ==
    LET decoded == jwt_decode(token, SECRET_KEY, clock)
    IN  IF decoded.raised = "ExpiredSignatureError"
        THEN [status |-> 401, detail |-> "Token has expired"]
        ELSE IF decoded.raised = "InvalidTokenError"
        THEN [status |-> 401, detail |-> "Invalid token"]
        ELSE [status |-> 200, payload |-> decoded.payload]

\* jwt_handler.verify_token: the payload, or the HTTPException raised.  (The
\* source writes the dash of the first detail as U+2013.)
verify_token(token, expected_type, clock) ==
    LET decoded == jwt_decode(token, SECRET_KEY, clock)
    IN  IF decoded.raised = "ExpiredSignatureError"
        THEN [status |-> 401, detail |-> "Token has expired"]
        ELSE IF decoded.raised = "InvalidTokenError"
        THEN [status |-> 401, detail |-> "Invalid token"]
        ELSE IF Get(decoded.payload, "type", None) # expected_type
        THEN [status |-> 401,
              detail |-> "Invalid token type - expected " \o expected_type]
        ELSE [status |-> 200, payload |-> decoded.payload]

\* The Authorization header of a request that carries none.
NoBearer == [wellformed |-> FALSE, payload |-> NoRow, signed_with |-> "<absent>"]

\* jwt_handler.get_current_user: the dependency of the protected routes.
get_current_user(credentials, clock) ==
    IF credentials = NoBearer
    THEN [status |-> 401,
          detail |-> "Missing authorization header - provide Bearer token"]
    ELSE verify_token(credentials, "access", clock)

-----------------------------------------------------------------------------
(* The authentication services and their routes *)

\* `value or ""` of an optional string.
OrEmpty(value) == IF value = None THEN "" ELSE value

\* A login that trusts any row the lookup returns.
login_any_row(found, access_at, refresh_at) ==
    LET row == found.row
        token_data == [user_id |-> Get(row, "UserID", ""),
                       supplier_code |-> OrEmpty(Get(row, "SupplierCode", None)),
                       group_name |-> OrEmpty(Get(row, "GroupName", None))]
    IN  [response |-> [success |-> TRUE, message |-> "Login successful",
                       data |-> [user_id |-> Get(row, "UserID", "")]],
         created |-> <<create_access_token(token_data, access_at),
                       create_refresh_token([user_id |-> Get(row, "UserID", "")],
                                            refresh_at)>>,
         queried |-> found.queried]

\* traceability_service.login from the return of its lookup on, found being
\* what validate_user_pc returned: the LoginResponse, the tokens the service
\* has created and the tables the lookup has queried.  create_access_token
\* reads the clock at access_at and create_refresh_token, called after it,
\* at refresh_at.  LoginResponse declares success, message and data only.
login(found, access_at, refresh_at) ==
    LET row == found.row
    IN  IF row = NoRow \/ Get(row, "RESULT", None) # "Y"
        THEN [response |-> [success |-> FALSE,
                            message |-> Get(row, "MSG", "Invalid user ID or password"),
                            data |-> NoRow],
              created |-> <<>>,
              queried |-> found.queried]
        ELSE LET data == [user_id |-> Get(row, "UserID", ""),
                          group_name |-> Get(row, "GroupName", None),
                          is_supplier |-> Get(row, "IsSupplier", None),
                          supplier_code |-> Get(row, "SupplierCode", None),
                          supplier_plant_code |-> Get(row, "SupplierPlantCode", None),
                          plant_name |-> Get(row, "PlantName", None)]
                 token_data == [user_id |-> data.user_id,
                                supplier_code |-> OrEmpty(data.supplier_code),
                                group_name |-> OrEmpty(data.group_name)]
             IN  [response |-> [success |-> TRUE, message |-> "Login successful",
                                data |-> data],
                  created |-> <<create_access_token(token_data, access_at),
                                create_refresh_token([user_id |-> data.user_id],
                                                     refresh_at)>>,
                  queried |-> found.queried]

\* traceability_service.get_traceability_user, from the return of its
\* lookup, validate_user, on.
get_traceability_user(row) ==
    IF row = NoRow \/ Get(row, "SupplierPlantCode", "") = ""
    THEN [success |-> FALSE,
          message |-> "User not authorised for traceability tag or no plant mapped",
          data |-> NoRow]
    ELSE [success |-> TRUE, message |-> "User details fetched",
          data |-> [user_id |-> Get(row, "UserID", ""),
                    supplier_code |-> Get(row, "SupplierCode", None),
                    supplier_plant_code |-> Get(row, "SupplierPlantCode", None),
                    packing_station |-> Get(row, "PackingStation", None),
                    plant_name |-> Get(row, "PASSWORD", None)]]

\* traceability_service.validate_supervisor at time clock, from the return of
\* its lookup, validate_device_supervisor, on: the response and the tokens the
\* service has created.
validate_supervisor(row, clock) ==
    IF SupervisorRejected(row)
    THEN [response |-> [success |-> FALSE,
                        message |-> "Supervisor authentication failed or insufficient rights",
                        data |-> NoRow],
          created |-> <<>>]
    ELSE LET data == [user_id |-> Get(row, "UserID", ""),
                      supplier_code |-> Get(row, "SupplierCode", None),
                      supplier_plant_code |-> Get(row, "SupplierPlantCode", None),
                      packing_station |-> Get(row, "PackingStation", None),
                      plant_name |-> Get(row, "PlantName", None)]
         IN  [response |-> [success |-> TRUE, message |-> "Supervisor validated",
                            data |-> data],
              created |-> <<create_access_token(
                                [user_id |-> data.user_id,
                                 supplier_code |-> OrEmpty(data.supplier_code),
                                 group_name |-> OrEmpty(
                                     Get(row, "GroupName", None)),
                                 role |-> "supervisor"], clock),
                            create_refresh_token([user_id |-> data.user_id],
                                                 clock)>>]

\* The rows GET_SUPPLIERPART answers with: none (the repository then returns
\* None), or the parts of the station.
SupplierPartRows ==
    { <<>>,
      << [SupplierPart |-> "P", SupplierName |-> "Part P"],
         [SupplierPart |-> "Q"] >> }

\* traceability_repo.get_supplier_parts: `if not rows: return None`.
get_supplier_parts(rows) ==
    IF rows = <<>> THEN NoRow ELSE [none |-> FALSE, list |-> rows]

\* traceability_service.get_model_list; the message of a success is the
\* f-string "Found {len(parts)} model(s)", kept as its pieces.
get_model_list(found) ==
    IF found = NoRow
    THEN [success |-> FALSE, message |-> <<"No models found for this station/plant">>,
          data |-> NoRow]
    ELSE LET rows == found.list IN
         [success |-> TRUE,
          message |-> <<"Found ", Len(rows), " model(s)">>,
          data |-> [i \in 1..Len(rows) |->
                       [supplier_part |-> Get(rows[i], "SupplierPart", ""),
                        supplier_name |-> Get(rows[i], "SupplierName",
                                              Get(rows[i], "SupplierPart", ""))]]]

\* What register_dal.get_user_groups comes back with: the rows SELECT_GROUP
\* answers with, in the procedure's order (none, the three groups, a group
\* twice and a row without its name column), or the exception the database
\* call raises.
GroupOutcomes ==
    { [raised |-> "", rows |-> <<>>],
      [raised |-> "",
       rows |-> << [GroupID |-> "G1", GroupName |-> "EOL Supervisor"],
                   [GroupID |-> "G2", GroupName |-> "EOL User"],
                   [GroupID |-> "G3", GroupName |-> "Line Lead"] >>],
      [raised |-> "",
       rows |-> << [GroupID |-> "G2", GroupName |-> "EOL User"],
                   [GroupID |-> "G2", GroupName |-> "EOL User"],
                   [GroupID |-> "G1"] >>],
      [raised |-> "connection lost", rows |-> <<>>] }

\* SupplierEndUserService.get_groups: the groups in the order of the rows, or
\* the failure its except branch answers with.  The messages are the
\* f-strings "Found {len(groups)} group(s)" and "Failed: {str(e)}", kept as
\* their pieces.
get_groups(outcome) ==
    IF outcome.raised # ""
    THEN [success |-> FALSE,
          message |-> <<"Failed: ", outcome.raised>>,
          data |-> <<>>]
    ELSE LET rows == outcome.rows IN
         [success |-> TRUE,
          message |-> <<"Found ", Len(rows), " group(s)">>,
          data |-> [i \in 1..Len(rows) |->
                       [group_id |-> Get(rows[i], "GroupID", None),
                        group_name |-> Get(rows[i], "GroupName", "")]]]

\* A token nobody issued: the string "invalidtoken123" of test_jwt.py.
InvalidToken == [wellformed |-> FALSE, payload |-> NoRow, signed_with |-> "<none>"]

\* An access token for the supervisor signed with another key.
ForgedToken ==
    jwt_encode([user_id |-> "sup", exp |-> RefreshLifetime, type |-> "access"],
               "another-key")

\* What a request carries as its Authorization header: nothing, a token
\* nobody issued, a forged one, or the access or the refresh token a client
\* holds from the last login that request thread u served.
BearerKinds == {"none", "invalid", "forged", "access", "refresh"}

\* TRUE iff the last request thread u served has issued tokens.
HoldsTokens(u) ==
    ret[u].op \in {"login", "supervisor_login"} /\ ret[u].created # <<>>

Bearer(kind, u) ==
    CASE kind = "none" -> NoBearer
      [] kind = "invalid" -> InvalidToken
      [] kind = "forged" -> ForgedToken
      [] kind = "access" -> ret[u].created[1]
      [] kind = "refresh" -> ret[u].created[2]

\* POST /api/traceability/login up to the return of validate_user_pc.  Of
\* the tables its queries read only TM_Supplier_End_User changes while the
\* service runs, and one query reads it.
LoginValidate(t, cred) ==
    /\ Enter(t, "login",
             [user_id |-> cred[1], password |-> cred[2]],
             [found |-> validate_user_pc(cred[1], cred[2])],
             NoCalls)
    /\ UNCHANGED <<TM_Supplier_End_User, TT_Kanban_Print, _field_lock_states,
                   lot_structure, now, history>>

\* login from the lookup's return to create_access_token, which reads the
\* clock for the expiry of the access token.
LoginAccessToken(t) ==
    /\ pc[t] = "login"
    /\ login(loc[t].found, now, now).response.success
    /\ pc' = [pc EXCEPT ![t] = "login_refresh"]
    /\ loc' = [loc EXCEPT ![t] = [found |-> loc[t].found, access_at |-> now]]
    /\ UNCHANGED <<TM_Supplier_End_User, TT_Kanban_Print, _field_lock_states,
                   lot_structure, now, req, ret, calls, history>>

\* The route to its answer: the refusal of a lookup that brought no row or a
\* row whose RESULT is not 'Y', answered with 401, or create_refresh_token,
\* which reads the clock again, and the response.
LoginRoute(t) ==
    /\ \/ pc[t] = "login" /\ ~login(loc[t].found, now, now).response.success
       \/ pc[t] = "login_refresh"
    /\ LET result == login(loc[t].found,
                           IF pc[t] = "login_refresh" THEN loc[t].access_at
                           ELSE now,
                           now)
       IN  Leave(t, [op |-> "login",
                     request |-> req[t],
                     row |-> loc[t].found.row,
                     status |-> IF result.response.success THEN 200 ELSE 401,
                     response |-> result.response,
                     created |-> result.created,
                     queried |-> result.queried])
    /\ UNCHANGED <<TM_Supplier_End_User, TT_Kanban_Print, _field_lock_states,
                   lot_structure, now, history>>

\* POST /api/traceability/traceability-user up to the first read of the user
\* table by validate_user's batch.
TraceabilityUserValidate(t, cred) ==
    /\ Enter(t, "traceability_user",
             [user_id |-> cred[1], password |-> cred[2]],
             [gName |-> GroupNameOf(TM_Supplier_End_User, cred[1],
                                    hash_password(cred[2]))],
             NoCalls)
    /\ UNCHANGED <<TM_Supplier_End_User, TT_Kanban_Print, _field_lock_states,
                   lot_structure, now, history>>

\* The route from there on: the rest of the batch, with its second read of
\* the user table, and the response.
TraceabilityUserRoute(t) ==
    /\ pc[t] = "traceability_user"
    /\ LET row == UserBatchEnd(loc[t].gName, TM_Supplier_End_User,
                               req[t].user_id, req[t].password)
           result == get_traceability_user(row)
       IN  Leave(t, [op |-> "traceability_user",
                     request |-> req[t],
                     status |-> IF result.success THEN 200 ELSE 403,
                     response |-> result])
    /\ UNCHANGED <<TM_Supplier_End_User, TT_Kanban_Print, _field_lock_states,
                   lot_structure, now, history>>

\* POST /api/traceability/supervisor-login up to the first read of the user
\* table by validate_device_supervisor's batch.
SupervisorLoginValidate(t, cred) ==
    /\ Enter(t, "supervisor_login",
             [user_id |-> cred[1], password |-> cred[2]],
             [gName |-> GroupNameOf(TM_Supplier_End_User, cred[1],
                                    hash_password(cred[2]))],
             NoCalls)
    /\ UNCHANGED <<TM_Supplier_End_User, TT_Kanban_Print, _field_lock_states,
                   lot_structure, now, history>>

\* The route from there on: the rest of the batch, with its second read of
\* the user table, and the response.
SupervisorLoginRoute(t) ==
    /\ pc[t] = "supervisor_login"
    /\ LET row == SupervisorBatchEnd(loc[t].gName, TM_Supplier_End_User,
                                     req[t].user_id, req[t].password)
           result == validate_supervisor(row, now)
       IN  Leave(t, [op |-> "supervisor_login",
                     request |-> req[t],
                     status |-> IF result.response.success THEN 200 ELSE 403,
                     response |-> result.response,
                     created |-> result.created])
    /\ UNCHANGED <<TM_Supplier_End_User, TT_Kanban_Print, _field_lock_states,
                   lot_structure, now, history>>

\* POST /api/traceability/model-list: the route declares no dependency on
\* get_current_user, so the Authorization header is not read.
ModelListRoute(t, kind, u, rows) ==
    /\ kind \in {"access", "refresh"} => HoldsTokens(u)
    /\ LET result == get_model_list(get_supplier_parts(rows))
           bearer == Bearer(kind, u)
       IN  Serve(t, [op |-> "model_list",
                     bearer |-> bearer,
                     status |-> IF result.success THEN 200 ELSE 400,
                     response |-> result,
                     lookups |-> 1])
    /\ UNCHANGED <<TM_Supplier_End_User, TT_Kanban_Print, _field_lock_states,
                   lot_structure, now, history>>

\* A groups route whose dependency accepts a token of any type.
GroupsRoute_any_type(t, kind, u, outcome) ==
    /\ kind \in {"access", "refresh"} => HoldsTokens(u)
    /\ LET bearer == Bearer(kind, u)
           user == verify_token_any_type(bearer, "access", now)
       IN  IF bearer = NoBearer \/ user.status # 200
           THEN Serve(t, [op |-> "groups", bearer |-> bearer, status |-> 401,
                          response |-> NoRow, lookups |-> 0])
           ELSE Serve(t, [op |-> "groups", bearer |-> bearer, status |-> 200,
                          response |-> get_groups(outcome), lookups |-> 1])
    /\ UNCHANGED <<TM_Supplier_End_User, TT_Kanban_Print, _field_lock_states,
                   lot_structure, now, history>>

\* GET /api/register/groups, behind Depends(get_current_user); the route
\* returns what the service answers, a failure included, with status 200.
GroupsRoute(t, kind, u, outcome) ==
    /\ kind \in {"access", "refresh"} => HoldsTokens(u)
    /\ LET bearer == Bearer(kind, u)
           user == get_current_user(bearer, now)
       IN  IF user.status # 200
           THEN Serve(t, [op |-> "groups", bearer |-> bearer, status |-> user.status,
                          response |-> [detail |-> user.detail], lookups |-> 0])
           ELSE Serve(t, [op |-> "groups", bearer |-> bearer, status |-> 200,
                          response |-> get_groups(outcome), lookups |-> 1])
    /\ UNCHANGED <<TM_Supplier_End_User, TT_Kanban_Print, _field_lock_states,
                   lot_structure, now, history>>

\* Half an hour passes.
Tick ==
    /\ now + ACCESS_TOKEN_EXPIRE_MINUTES <= MaxMinutes
    /\ now' = now + ACCESS_TOKEN_EXPIRE_MINUTES
    /\ UNCHANGED <<TM_Supplier_End_User, TT_Kanban_Print, _field_lock_states,
                   lot_structure, pc, req, loc, ret, calls, history>>

\* The authentication endpoints, called with every credential of the model.
NextAuth ==
    \/ \E t \in Threads, cred \in AuthCredentials : LoginValidate(t, cred)
    \/ \E t \in Threads : LoginAccessToken(t)
    \/ \E t \in Threads : LoginRoute(t)
    \/ \E t \in Threads, cred \in AuthCredentials :
           TraceabilityUserValidate(t, cred)
    \/ \E t \in Threads : TraceabilityUserRoute(t)
    \/ \E t \in Threads, cred \in AuthCredentials :
           SupervisorLoginValidate(t, cred)
    \/ \E t \in Threads : SupervisorLoginRoute(t)
    \/ \E t \in Threads, a \in Registrations : RegisterUserInsert(t, a)
    \/ \E t \in Threads : RegisterUserPatch(t)
    \/ \E t \in Threads, a \in Updates : UpdateUserUpdate(t, a)
    \/ \E t \in Threads : UpdateUserPatch(t)
    \/ \E t \in Threads, user_id \in Deletions : DeleteUser(t, user_id)
    \/ \E t \in Threads, a \in PasswordChanges : ChangePassword(t, a)

SpecAuth == InitAuth /\ [][NextAuth]_vars

\* The credentials of the clients that go on to call the token-bearing routes.
TokenCredentials == { <<"sup", "pw">>, <<"sup", "bad">>, <<"admin", "pw">> }

\* Logins, and requests that present what the logins issued, as time passes.
NextToken ==
    \/ \E t \in Threads, cred \in TokenCredentials : LoginValidate(t, cred)
    \/ \E t \in Threads : LoginAccessToken(t)
    \/ \E t \in Threads : LoginRoute(t)
    \/ \E t, u \in Threads, kind \in BearerKinds, rows \in SupplierPartRows :
           ModelListRoute(t, kind, u, rows)
    \/ \E t, u \in Threads, kind \in BearerKinds, outcome \in GroupOutcomes :
           GroupsRoute(t, kind, u, outcome)
    \/ \E t \in Threads, a \in PasswordChanges : ChangePassword(t, a)
    \/ Tick

SpecToken == InitAuth /\ [][NextToken]_vars

-----------------------------------------------------------------------------
(* Properties of the field lock coordinator *)

\* The step in which thread t's lock_fields returns, and the one in which it
\* returns having registered a LockState.
LockReturns(t) ==
    pc[t] \in {"lock_fields", "lock_fields_store"} /\ pc'[t] = "idle"
LockRegisters(t) == LockReturns(t) /\ ret'[t].repo[1]
UnlockReturns(t) == pc[t] = "unlock_fields" /\ pc'[t] = "idle"

\* C3: lock calls on one LockKey are serialized: a lock call never registers a
\* LockState over one that another lock call on the same LockKey registered
\* after this call had started.
C3_LockCallsSerialized ==
    [][\A u \in Threads :
         LockRegisters(u) =>
            LET key == lock_key(req[u].key)
            IN  ~ /\ key \in DOMAIN _field_lock_states
                  /\ _field_lock_states[key].locked_at >= loc[u].began
                  /\ \E t \in Threads \ {u} :
                        /\ ret[t].op = "lock_fields"
                        /\ ret[t].key = req[u].key
                        /\ ret[t].repo[1]]_vars

\* C4: whenever the policy lookup of a lock call returned 'Disable', the call
\* returns (False, 'Disable') and the service reports success = locked = False,
\* whether or not the key was locked before.
C4_DisableAlwaysRefused ==
    [][\A t \in Threads :
         (LockReturns(t) /\ loc[t].lot_lock_type = "Disable") =>
            /\ ret'[t].repo = <<FALSE, "Disable">>
            /\ ret'[t].response.success = FALSE
            /\ ret'[t].response.locked = FALSE]_vars

\* A lock call was refused with 'Disable' on a key that is Locked.
C4_Witness ==
    \E t \in Threads :
        /\ ret[t].op = "lock_fields"
        /\ ret[t].repo = <<FALSE, "Disable">>
        /\ is_fields_locked(_field_lock_states, ret[t].key)

\* C5: no LockState is registered at a moment when the part's lot-lock policy
\* is 'Disable'.
C5_NeverRegisteredWhileDisable ==
    [][\A t \in Threads :
         LockRegisters(t) =>
            get_lot_lock_type(lot_structure, req[t].key[1]) # "Disable"]_vars

\* C8: a lock call whose policy lookup found no row returns (False, None), and
\* a lock call refused for NotFound or 'Disable' leaves the registry unchanged.
C8_FailedLockChangesNothing ==
    [][\A t \in Threads :
         LockReturns(t) =>
            /\ loc[t].lot_lock_type = None =>
                  /\ ret'[t].repo = <<FALSE, None>>
                  /\ ret'[t].response.success = FALSE
            /\ loc[t].lot_lock_type \in {None, "Disable"} =>
                  _field_lock_states' = _field_lock_states]_vars

\* A lock call failed with NotFound on a key that is Locked, and stays so.
C8_Witness ==
    \E t \in Threads :
        /\ ret[t].op = "lock_fields"
        /\ ret[t].repo = <<FALSE, None>>
        /\ is_fields_locked(_field_lock_states, ret[t].key)

RegistryWellFormed(states) ==
    \A key \in DOMAIN states :
        /\ states[key].locked = TRUE
        /\ states[key].lot_lock_type \notin {"Disable", None}

LockedIffEntry(states) ==
    \A k \in LockKeys :
        is_fields_locked(states, k) <=> lock_key(k) \in DOMAIN states

\* A registering lock call returns (True, policy) and stores that policy; an
\* entry appears only by such a step and disappears only by an unlock step.
EntriesByLockAndUnlockOnly ==
    /\ \A t \in Threads :
          LockRegisters(t) =>
             /\ loc[t].lot_lock_type # "Disable"
             /\ ret'[t].repo = <<TRUE, loc[t].lot_lock_type>>
             /\ _field_lock_states'[lock_key(req[t].key)] =
                   [locked |-> TRUE, locked_at |-> loc[t].locked_at,
                    lot_lock_type |-> loc[t].lot_lock_type]
    /\ \A key \in (DOMAIN _field_lock_states') \ (DOMAIN _field_lock_states) :
          \E t \in Threads : LockRegisters(t) /\ lock_key(req[t].key) = key
    /\ \A key \in (DOMAIN _field_lock_states) \ (DOMAIN _field_lock_states') :
          \E t \in Threads : UnlockReturns(t) /\ lock_key(req[t].key) = key

\* C9: every registry entry has locked = True and a lot_lock_type other than
\* 'Disable', and is_fields_locked is true exactly for the keys with an entry;
\* an entry appears only in a step of a lock call that returns (True, policy)
\* and holds that policy, and disappears only in a step of an unlock.
C9_PerKeyStateMachine ==
    /\ [](RegistryWellFormed(_field_lock_states) /\ LockedIffEntry(_field_lock_states))
    /\ [][EntriesByLockAndUnlockOnly]_vars

\* A key went Unlocked -> Locked -> Unlocked: after a single registration, a
\* lock call on it succeeded, an unlock of it succeeded, and it has no entry.
C9_Witness ==
    /\ now = 1
    /\ _field_lock_states = <<>>
    /\ \E t \in Threads, u \in Threads :
          /\ ret[t].op = "lock_fields"
          /\ ret[t].repo[1]
          /\ ret[u].op = "unlock_fields"
          /\ ret[u].unlocked
          /\ ret[u].key = ret[t].key

\* C10: a lock or an unlock on one LockKey never changes is_fields_locked of
\* a different LockKey.
C10_OtherKeysUntouched ==
    [][\A t \in Threads :
         (LockReturns(t) \/ UnlockReturns(t)) =>
            \A k \in LockKeys \ {req[t].key} :
               is_fields_locked(_field_lock_states', k)
                  = is_fields_locked(_field_lock_states, k)]_vars

\* C11: a Locked key stays Locked until an unlock call on that same key
\* executes: in the step in which a key stops being Locked, an unlock_fields
\* on that very key returns.
C11_LockedUntilOwnUnlock ==
    [][\A k \in LockKeys :
         (/\ is_fields_locked(_field_lock_states, k)
          /\ ~is_fields_locked(_field_lock_states', k))
            => \E t \in Threads : UnlockReturns(t) /\ req[t].key = k]_vars

-----------------------------------------------------------------------------
(* Properties of the registry functions called in sequence *)

\* C6: lock(key) succeeding, then unlock(key), then is_fields_locked(key):
\* the last returns False, whatever the registry held before.
C6_RoundTrip ==
    \A i \in 1..(Len(history) - 2) :
        ( /\ history[i].op = "lock_fields"
          /\ history[i].result[1]
          /\ history[i + 1].op = "unlock_fields"
          /\ history[i + 1].key = history[i].key
          /\ history[i + 2].op = "is_fields_locked"
          /\ history[i + 2].key = history[i].key )
        => history[i + 2].result = FALSE

\* The round trip was made on one key while another key was Locked.
C6_Witness ==
    /\ Len(history) = 3
    /\ history[1].op = "lock_fields"
    /\ history[1].result[1]
    /\ history[2].op = "unlock_fields"
    /\ history[2].key = history[1].key
    /\ history[3].op = "is_fields_locked"
    /\ history[3].key = history[1].key
    /\ history[3].result = FALSE
    /\ history[1].before # <<>>

\* C7: every unlock returns True and leaves the registry without the key's
\* entry and otherwise as it was; a second unlock of the key right after it
\* returns True too and leaves the registry as the first one left it.
C7_UnlockIdempotent ==
    \A i \in 1..Len(history) :
        history[i].op = "unlock_fields" =>
            /\ history[i].result = TRUE
            /\ history[i].after =
                  [x \in (DOMAIN history[i].before) \ {lock_key(history[i].key)}
                      |-> history[i].before[x]]
            /\ ( /\ i < Len(history)
                 /\ history[i + 1].op = "unlock_fields"
                 /\ history[i + 1].key = history[i].key )
               => /\ history[i + 1].result = TRUE
                  /\ history[i + 1].after = history[i].after

\* A Locked key was unlocked twice in a row.
C7_Witness ==
    \E i \in 1..(Len(history) - 1) :
        /\ history[i].op = "unlock_fields"
        /\ lock_key(history[i].key) \in DOMAIN history[i].before
        /\ history[i + 1].op = "unlock_fields"
        /\ history[i + 1].key = history[i].key
        /\ history[i + 1].result = TRUE

-----------------------------------------------------------------------------
(* Properties of the tag operations *)

\* The step in which the supervisor lookup of a re-print or an unlock request
\* starts, and the one in which it returns.
SupervisorLookupStarts(t) ==
    pc[t] = "idle" /\ pc'[t] \in {"reprint_tag_select", "unlock_fields_select"}
SupervisorLookedUp(t) ==
    /\ pc[t] \in {"reprint_tag_select", "unlock_fields_select"}
    /\ pc'[t] \in {"reprint_tag", "unlock_fields"}

\* The handler makes one lookup and no executor call, and keeps the row
\* validate_device_supervisor finds for the credentials of its own request:
\* the rights of the group the user table shows when the lookup starts, the
\* row the table shows when the lookup returns.
LookupIsOwn(t) ==
    /\ SupervisorLookupStarts(t) =>
          /\ loc'[t].gName = GroupNameOf(TM_Supplier_End_User, req'[t].user_id,
                                         hash_password(req'[t].password))
          /\ calls'[t].validate_device_supervisor = 1
          /\ calls'[t].executor = 0
    /\ SupervisorLookedUp(t) =>
          /\ loc'[t].supervisor_row =
                 SupervisorBatchEnd(loc[t].gName, TM_Supplier_End_User,
                                    req[t].user_id, req[t].password)
          /\ req'[t] = req[t]
          /\ calls'[t] = calls[t]

\* C1: a reprint_tag whose supervisor lookup finds no record (no matching
\* credential, or a group without the supervisor screens, in the user table
\* as the lookup reads it) never calls the reprint executor, neither
\* before it returns nor by the time it has returned, and returns
\* success = false with the authorization failure message and no data.
C1_RefusedReprintNeverExecutes ==
    /\ [](\A t \in Threads :
             (pc[t] = "reprint_tag" /\ loc[t].supervisor_row = NoRow)
                => calls[t].executor = 0)
    /\ [][\A t \in Threads :
             /\ LookupIsOwn(t)
             /\ (/\ pc[t] = "reprint_tag" /\ pc'[t] = "idle"
                 /\ loc[t].supervisor_row = NoRow)
                   => /\ calls'[t].executor = 0
                      /\ calls'[t].validate_device_supervisor = 1
                      /\ ret'[t].response = [success |-> FALSE,
                                             message |-> SupervisorFailedMessage,
                                             data |-> NoRow]]_vars

\* Two re-prints have been refused: one that carried the supervisor's right
\* password, looked up after the supervisor was moved to a group without the
\* supervisor screens, and one of a user whose group never had them.
C1_Witness ==
    \E t, u \in Threads :
        /\ ret[t].op = "reprint_tag" /\ ret[u].op = "reprint_tag"
        /\ ret[t].request.user_id = "sup" /\ ret[t].request.password = "pw"
        /\ ret[u].request.user_id = "oper"
        /\ ~ret[t].response.success /\ ~ret[u].response.success
        /\ calls[t].executor = 0 /\ calls[u].executor = 0
        /\ \E um \in TM_Supplier_End_User :
               um.UserID = "sup" /\ um.GroupID = "G2"
        /\ validate_device_supervisor(TM_Supplier_End_User, TM_Supplier_End_User,
                                      "sup", "pw") = NoRow

\* C2: a rework_print that has returned looked the old barcode up before it
\* called the rework executor, and for a barcode that is no tag on record it
\* called the executor zero times and returned a failure.
C2_ReworkLooksTagUpFirst ==
    [][\A t \in Threads :
         (ret'[t] # ret[t] /\ ret'[t].op = "rework_print") =>
            /\ calls'[t].executor > 0 => calls'[t].validate_tag > 0
            /\ ret'[t].request.barcode \notin TT_Kanban_Print
                   => /\ calls'[t].executor = 0
                      /\ ~ret'[t].response.success]_vars

-----------------------------------------------------------------------------
(* Properties of the result decoders *)

PrintKinds == {"print_tag", "reprint_tag"}

\* Thread t has decoded a result string joined from ret[t].fields.
DecodedFields(t) == ret[t].op = "decode" /\ Len(ret[t].fields) > 0

\* The count a count field's text stands for: its integer value, 0 if it has
\* none.
CountOf(text) == IF int(text).raised THEN <<0>> ELSE <<int(text).value>>

\* C12: the print / re-print decoder picks the layout from the number n of
\* fields alone, the same for both operation kinds: n >= 13 reads lot2 at 8,
\* serial2 at 9, print time at 10, tag count at 11 and total quantity at 12;
\* 11 <= n < 13 has no lot2 / serial2 and reads print time at 8, tag count at
\* 9 and total quantity at 10; n < 11 reads supplier name, traceability,
\* serial number and barcode lot 1 at 1, 2, 3 and 7 where present and nothing
\* else.
C12_LayoutByFieldCount ==
    \A t \in Threads :
        (DecodedFields(t) /\ ret[t].kind \in PrintKinds /\ ret[t].response.success)
        => LET f == ret[t].fields
               n == Len(f)
               d == ret[t].response.data
           IN  /\ n >= 13 =>
                     /\ d.barcode_lot2 = (IF f[9] = <<>> THEN NoneText ELSE f[9])
                     /\ d.serial_no_2 = (IF f[10] = <<>> THEN NoneText ELSE f[10])
                     /\ d.print_time = f[11]
                     /\ d.no_of_tags_stock_in = CountOf(f[12])
                     /\ d.total_qty_stock_in = CountOf(f[13])
               /\ (n >= 11 /\ n < 13) =>
                     /\ d.barcode_lot2 = NoneText
                     /\ d.serial_no_2 = NoneText
                     /\ d.print_time = f[9]
                     /\ d.no_of_tags_stock_in = CountOf(f[10])
                     /\ d.total_qty_stock_in = CountOf(f[11])
               /\ n < 11 =>
                     /\ d.supplier_name = (IF n > 1 THEN f[2] ELSE <<>>)
                     /\ d.traceability = (IF n > 2 THEN f[3] ELSE <<>>)
                     /\ d.serial_no = (IF n > 3 THEN f[4] ELSE <<>>)
                     /\ d.barcode_lot1 = (IF n > 7 THEN f[8] ELSE NoneText)
                     /\ d.company_name = NoneText /\ d.tag_type = NoneText
                     /\ d.print_date = NoneText /\ d.print_time = NoneText
                     /\ d.barcode_lot2 = NoneText /\ d.serial_no_2 = NoneText
                     /\ d.no_of_tags_stock_in = NoneInt
                     /\ d.total_qty_stock_in = NoneInt

\* A re-print decoded a 13-field string by the full layout and a 12-field
\* string would be read by the reduced one.
C12_Witness ==
    \E t \in Threads :
        /\ DecodedFields(t) /\ ret[t].kind = "reprint_tag"
        /\ Len(ret[t].fields) = 13
        /\ ret[t].response.success
        /\ ret[t].response.data.serial_no_2 = SampleFields[10]
        /\ ret[t].response.data.print_time = SampleFields[11]
        /\ _parse_print_result(
               [Result |-> join(SubSeq(ret[t].fields, 1, 12), "~"), Msg |-> <<>>]
           ).data.print_time = SampleFields[9]

\* C13: a 13-field string whose first field is "Y" decodes (print, re-print)
\* to success with supplier_name, serial_no, print_date and barcode_lot1 equal
\* to fields 1, 3, 6 and 7 unchanged and total_qty_stock_in equal to the
\* integer field 12 stands for (white space around the digits is ignored,
\* the vertical tab and the spaces above ASCII included);
\* the sample string gives serial_no "0000007", barcode_lot1 "LOT123" and
\* total_qty_stock_in 360.
C13_FullLayoutRecoversFields ==
    \A t \in Threads :
        (/\ DecodedFields(t) /\ ret[t].kind \in PrintKinds
         /\ Len(ret[t].fields) = 13 /\ ret[t].fields[1] = <<"Y">>)
        => LET f == ret[t].fields
               d == ret[t].response.data
           IN  /\ ret[t].response.success
               /\ d.supplier_name = f[2]
               /\ d.serial_no = f[4]
               /\ d.print_date = f[7]
               /\ d.barcode_lot1 = f[8]
               /\ ~int(f[13]).raised => d.total_qty_stock_in = <<int(f[13]).value>>
               /\ f[13] = <<"1", "2">> => d.total_qty_stock_in = <<12>>
               /\ f[13] = <<"\t", "1", "2", " ", "\n">>
                     => d.total_qty_stock_in = <<12>>
               /\ f[13] = <<"1", "2", "_">> => d.total_qty_stock_in = <<0>>
               /\ f[13] = <<"U+000B", "1", "2", "U+00A0", "U+3000">>
                     => d.total_qty_stock_in = <<12>>
               /\ f = SampleFields =>
                     /\ d.serial_no = <<"0", "0", "0", "0", "0", "0", "7">>
                     /\ d.barcode_lot1 = <<"L", "O", "T", "1", "2", "3">>
                     /\ d.total_qty_stock_in = <<360>>

\* The sample string has been decoded for a print, next to the message "OK".
C13_Witness ==
    \E t \in Threads :
        /\ DecodedFields(t) /\ ret[t].kind = "print_tag"
        /\ ret[t].fields = SampleFields
        /\ ret[t].row = [Result |-> join(SampleFields, "~"), Msg |-> <<"O", "K">>]
        /\ ret[t].response.success
        /\ ret[t].response.message = <<"O", "K">>
        /\ ret[t].response.data.total_qty_stock_in = <<360>>

\* The text a decoder reads in a column of a row: the column under either
\* spelling, '' when the row has neither, 'None' when it is NULL.
ColumnText(row, name, upper) ==
    LET cell == IF name \in DOMAIN row THEN row[name]
                ELSE IF upper \in DOMAIN row THEN row[upper] ELSE <<>>
    IN  IF cell = NoneText THEN <<"N", "o", "n", "e">> ELSE cell

\* Thread t has decoded a row whose result text does not begin with 'Y'.
DecodedRejection(t) ==
    /\ ret[t].op = "decode"
    /\ ret[t].row # NoRow
    /\ LET text == ColumnText(ret[t].row, "Result", "RESULT")
       IN  text = <<>> \/ text[1] # "Y"

\* C14 as claimed: a result string that does not begin with 'Y' decodes to
\* success = false with no data, and the message is the whole result string
\* when it is non-empty, otherwise the accompanying Msg.
C14_RejectionMessageRawElseMsg ==
    \A t \in Threads :
        (/\ DecodedRejection(t) /\ DecodedFields(t)
         /\ ColumnText(ret[t].row, "Msg", "MSG") \in Msgs \ {NoneText})
        => LET raw == join(ret[t].fields, "~")
           IN  /\ ~ret[t].response.success
               /\ ret[t].response.data = NoRow
               /\ ret[t].response.message =
                     (IF raw # <<>> THEN raw
                      ELSE ColumnText(ret[t].row, "Msg", "MSG"))

\* C14 amended: a row whose result text does not begin with 'Y' decodes
\* (print, re-print, rework) to success = false with no data; the message is
\* the result text when it is non-empty, otherwise the Msg text when that is
\* non-empty, otherwise 'Print failed' (print, re-print) or 'Rework print
\* failed' (rework).
C14_RejectionMessageWithDefault ==
    \A t \in Threads :
        DecodedRejection(t)
        => LET raw == IF DecodedFields(t) THEN join(ret[t].fields, "~")
                      ELSE ColumnText(ret[t].row, "Result", "RESULT")
               msg == ColumnText(ret[t].row, "Msg", "MSG")
           IN  /\ ~ret[t].response.success
               /\ ret[t].response.data = NoRow
               /\ ret[t].response.message =
                     (IF raw # <<>> THEN raw
                      ELSE IF msg # <<>> THEN msg
                      ELSE IF ret[t].kind = "rework_print"
                           THEN ReworkPrintFailedMessage
                           ELSE PrintFailedMessage)

\* An empty result string next to an empty Msg was decoded for a print and
\* for a rework, and a non-empty rejection was.
C14_Witness ==
    \E t \in Threads :
        /\ DecodedRejection(t) /\ DecodedFields(t)
        /\ join(ret[t].fields, "~") = <<>>
        /\ ColumnText(ret[t].row, "Msg", "MSG") = <<>>
        /\ ret[t].kind = "rework_print"
        /\ ret[t].response.message = ReworkPrintFailedMessage
        /\ decode("print_tag", ret[t].row).message = PrintFailedMessage
        /\ decode("print_tag", [Result |-> RejectedResult, Msg |-> <<>>]).message
              = RejectedResult

\* Thread t has decoded, for a print, the result 'N~Serial limit exceeded'
\* next to an empty Msg.
DecodedSerialLimit(t) ==
    /\ ret[t].op = "decode" /\ ret[t].kind = "print_tag"
    /\ ret[t].row # NoRow
    /\ ColumnText(ret[t].row, "Result", "RESULT") = RejectedResult
    /\ ColumnText(ret[t].row, "Msg", "MSG") = <<>>

\* C15 as claimed: 'N~Serial limit exceeded' with an empty Msg decodes, for a
\* print, to success = false with the message 'Serial limit exceeded'.
C15_SerialLimitMessageStripped ==
    \A t \in Threads :
        DecodedSerialLimit(t)
        => /\ ~ret[t].response.success
           /\ ret[t].response.message = RejectedMsg

\* C15 amended: it decodes to success = false, no data, and the message is the
\* whole result string 'N~Serial limit exceeded', marker and delimiter
\* included.
C15_SerialLimitMessageWhole ==
    \A t \in Threads :
        DecodedSerialLimit(t)
        => /\ ~ret[t].response.success
           /\ ret[t].response.data = NoRow
           /\ ret[t].response.message = RejectedResult
           /\ ret[t].response.message[1] = "N"
           /\ ret[t].response.message[2] = "~"
           /\ SubSeq(ret[t].response.message, 3, Len(ret[t].response.message))
                 = RejectedMsg

\* The string has been decoded for a print from a row of either spelling.
C15_Witness ==
    \E t \in Threads :
        /\ DecodedSerialLimit(t)
        /\ "Result" \in DOMAIN ret[t].row
        /\ ~ret[t].response.success
        /\ Len(ret[t].response.message) = Len(RejectedMsg) + 2

\* C16: a decoder reports success only for a result string whose first
\* '~'-separated field is exactly 'Y'; a first field that merely starts with
\* 'Y' ('YES', 'Yield limit reached') is a failure.
C16_SuccessOnlyForExactMarker ==
    \A t \in Threads :
        DecodedFields(t)
        => /\ ret[t].response.success => ret[t].fields[1] = <<"Y">>
           /\ ret[t].fields[1] \in {<<"Y", "E", "S">>, YieldLimitReached}
                 => /\ ~ret[t].response.success
                    /\ ret[t].response.data = NoRow

\* C17: every result string that decodes to success, of any field count,
\* holds the default in each result field whose position the string lacks:
\* the empty string in a text field, zero in a count field.
C17_MissingFieldsHoldDefaults ==
    \A t \in Threads :
        (DecodedFields(t) /\ ret[t].fields[1] = <<"Y">>)
        => LET n == Len(ret[t].fields)
               d == ret[t].response.data
           IN  /\ ret[t].response.success
               /\ ret[t].kind \in PrintKinds =>
                     /\ n <= 1 => d.supplier_name = <<>>
                     /\ n <= 2 => d.traceability = <<>>
                     /\ n <= 3 => d.serial_no = <<>>
                     /\ n <= 4 => d.company_name = <<>>
                     /\ n <= 5 => d.tag_type = <<>>
                     /\ n <= 6 => d.print_date = <<>>
                     /\ n <= 7 => d.barcode_lot1 = <<>>
                     /\ n <= 8 => d.print_time = <<>>
                     /\ n <= 9 => d.no_of_tags_stock_in = <<0>>
                     /\ n <= 10 => d.total_qty_stock_in = <<0>>
               /\ ret[t].kind = "rework_print" =>
                     /\ n <= 1 => d.barcode = <<>>
                     /\ n <= 2 => d.print_time = <<>>
                     /\ n <= 3 => d.serial_no = <<>>
                     /\ n <= 4 => d.no_of_tags_stock_in = <<0>>
                     /\ n <= 5 => d.total_qty_stock_in = <<0>>
                     /\ n <= 6 => d.tag_type = <<>>
                     /\ n <= 7 => d.print_date = <<>>

\* C18 as claimed: no row and a row without the success marker both decode to
\* (false, message, no data); the no-row message is the fixed one, and a
\* rejection never carries it.
C18_NoRowMessageNeverARejection ==
    \A t \in Threads :
        ret[t].op = "decode"
        => /\ ret[t].row = NoRow =>
                 ret[t].response = [success |-> FALSE, message |-> NoResultMessage,
                                    data |-> NoRow]
           /\ DecodedRejection(t) =>
                 /\ ~ret[t].response.success
                 /\ ret[t].response.data = NoRow
                 /\ ret[t].response.message # NoResultMessage

\* C18 amended: both decode to (false, message, no data); the no-row message
\* is always the fixed one; a rejection carries the row's own text, which is
\* the fixed message exactly when the row's result text (or, that being
\* empty, its Msg text) is that very sentence.
C18_NoRowMessageUnlessRowSaysSo ==
    \A t \in Threads :
        ret[t].op = "decode"
        => /\ ret[t].row = NoRow =>
                 ret[t].response = [success |-> FALSE, message |-> NoResultMessage,
                                    data |-> NoRow]
           /\ DecodedRejection(t) =>
                 LET raw == ColumnText(ret[t].row, "Result", "RESULT")
                     msg == ColumnText(ret[t].row, "Msg", "MSG")
                 IN  /\ ~ret[t].response.success
                     /\ ret[t].response.data = NoRow
                     /\ (ret[t].response.message = NoResultMessage)
                           <=> (\/ raw = NoResultMessage
                                \/ raw = <<>> /\ msg = NoResultMessage)

\* The executor returned no row to a rework, whose message therefore differs
\* from the one a 'N~...' rejection or an empty row gets.
C18_Witness ==
    \E t \in Threads :
        /\ ret[t].op = "decode" /\ ret[t].kind = "rework_print"
        /\ ret[t].row = NoRow
        /\ ret[t].response.message = NoResultMessage
        /\ decode(ret[t].kind, [Result |-> TagNotFoundResult, Msg |-> <<>>]).message
              = TagNotFoundResult
        /\ decode(ret[t].kind, [Result |-> <<>>, Msg |-> <<>>]).message
              = ReworkPrintFailedMessage

-----------------------------------------------------------------------------
(* Properties of the tag operations (continued) *)

\* C19: one print, re-print or rework calls the executor at most once and each
\* credential lookup at most once, also when the executor returned no row or
\* a failure: the operation has then returned that failure, having made
\* exactly one executor call.
C19_NoRetries ==
    \A t \in Threads :
        /\ calls[t].executor <= 1
        /\ calls[t].validate_device_supervisor <= 1
        /\ ret[t].op \in {"print_tag", "rework_print"} =>
              /\ calls[t].executor = 1
              /\ calls[t].validate_device_supervisor = 0
        /\ ret[t].op = "reprint_tag" =>
              /\ calls[t].validate_device_supervisor = 1
              /\ calls[t].executor = (IF "row" \in DOMAIN ret[t] THEN 1 ELSE 0)
        /\ (/\ ret[t].op \in {"print_tag", "reprint_tag", "rework_print"}
            /\ "row" \in DOMAIN ret[t]
            /\ ~ret[t].response.success) =>
              /\ pc[t] = "idle"
              /\ calls[t].executor = 1
              /\ ret[t].response.data = NoRow

\* A re-print with valid supervisor credentials got no row from the executor
\* and returned the failure after its single call, while the other thread's
\* rework returned a rejection after its single call.
C19_Witness ==
    \E t, u \in Threads :
        /\ ret[t].op = "reprint_tag"
        /\ "row" \in DOMAIN ret[t] /\ ret[t].row = NoRow
        /\ ~ret[t].response.success
        /\ calls[t].executor = 1 /\ calls[t].validate_device_supervisor = 1
        /\ ret[u].op = "rework_print"
        /\ ret[u].row = [Result |-> TagNotFoundResult, Msg |-> <<>>]
        /\ ~ret[u].response.success
        /\ calls[u].executor = 1

-----------------------------------------------------------------------------
(* Properties of the supervisor-gated operations *)

\* The credentials request r carries pass the supervisor validation, the user
\* table being as it is.
CarriesValidSupervisor(r) ==
    LET sup_row == validate_device_supervisor(TM_Supplier_End_User,
                                              TM_Supplier_End_User,
                                              r.user_id, r.password)
    IN  sup_row # NoRow /\ sup_row.SupplierPlantCode # ""

\* C20: a step in which a re-print calls its executor, or in which an unlock
\* request unlocks its key, belongs to a request that has validated the
\* supervisor credentials it carries itself, once and with success (the row
\* it holds is the one its own lookup found for its own user); a registry
\* entry goes away only in such a step.
C20_GatedByOwnValidation ==
    [][/\ \A t \in Threads :
            /\ LookupIsOwn(t)
            /\ (\/ calls'[t].executor > calls[t].executor
                \/ UnlockReturns(t) /\ ret'[t].unlocked)
               => /\ pc[t] \in {"reprint_tag", "unlock_fields"}
                  /\ calls[t].validate_device_supervisor = 1
                  /\ ~SupervisorRejected(loc[t].supervisor_row)
                  /\ loc[t].supervisor_row.UserID = req[t].user_id
       /\ (DOMAIN _field_lock_states) \ (DOMAIN _field_lock_states') # {}
             => \E t \in Threads :
                   /\ UnlockReturns(t)
                   /\ ~SupervisorRejected(loc[t].supervisor_row)
                   /\ loc[t].supervisor_row.UserID = req[t].user_id]_vars

\* One request unlocked a key with valid supervisor credentials of its own,
\* and a re-print that carried other credentials has been refused without a
\* call of its executor: the verified supervisor of the first did not carry over.
C20_Witness ==
    \E t, u \in Threads :
        /\ ret[u].op = "unlock_fields"
        /\ ret[u].supervisor_verified /\ ret[u].unlocked
        /\ ret[t].op = "reprint_tag"
        /\ ~CarriesValidSupervisor(ret[t].request)
        /\ ~ret[t].response.success
        /\ calls[t].executor = 0
        /\ calls[t].validate_device_supervisor = 1

-----------------------------------------------------------------------------
(* Properties of authentication *)

\* The group of the caller, as the rights check of the lookup thread t is
\* making has read it.
CallerGroup(t) == loc[t].gName

\* TRUE iff the group holds the view right on every one of the screens.
HoldsAllViewRights(group_name, screens) ==
    \A s \in screens : HasViewRight(group_name, {s})

\* The step in which thread t answers a request of kind op.  The
\* traceability-user and supervisor-login routes have read the caller's
\* group in an earlier step and read the caller's row in this one.
Served(t, op) == ret'[t] # ret[t] /\ ret'[t].op = op

\* The step in which the lookup of a login is made, and the one in which the
\* login is answered; the row the answer rests on is the one the lookup
\* found in the tables as they were at the lookup.
LoginLooksUp(t) == pc[t] = "idle" /\ pc'[t] = "login"
LoginReturns(t) == pc[t] \in {"login", "login_refresh"} /\ pc'[t] = "idle"
LoginRowAccepted(row) == row # NoRow /\ Get(row, "RESULT", None) = "Y"

\* C21: an authentication that requires a set of screens succeeds only if the
\* caller's group holds view rights on all of them, for the supervisor
\* screens 3002/2003 and for the operator screens 3001/2003.
C21_AllRequiredScreens ==
    [][\A t \in Threads :
         /\ (Served(t, "supervisor_login") /\ ret'[t].response.success)
               => HoldsAllViewRights(CallerGroup(t),
                                     SupervisorScreens)
         /\ (Served(t, "traceability_user") /\ ret'[t].response.success)
               => HoldsAllViewRights(CallerGroup(t),
                                     OperatorScreens)]_vars

\* TRUE iff some admin or end-user record matches the credentials of r, the
\* tables being as they are.
RecordMatches(r) ==
    \/ AdminRows(r.user_id, hash_password(r.password)) # {}
    \/ EndUserRows(TM_Supplier_End_User, r.user_id, hash_password(r.password)) # {}

\* C22: whenever no record matches the submitted user id and password hash
\* when the lookup is made (the lookup then returns no row), or the row the
\* lookup returns has a RESULT other than "Y", login answers success=false
\* with no user data, creates no access or refresh token, neither on the way
\* nor in the answer, and the endpoint answers 401.
C22_LoginFailsClosed ==
    [][\A t \in Threads :
         /\ (LoginLooksUp(t) /\ ~RecordMatches(req'[t]))
               => loc'[t].found.row = NoRow
         /\ pc'[t] = "login_refresh" => LoginRowAccepted(loc'[t].found.row)
         /\ (LoginReturns(t) /\ ~LoginRowAccepted(loc[t].found.row))
               => /\ pc[t] = "login"
                  /\ ret'[t].op = "login"
                  /\ ret'[t].request = req[t]
                  /\ ~ret'[t].response.success
                  /\ ret'[t].response.data = NoRow
                  /\ ret'[t].created = <<>>
                  /\ ret'[t].status = 401]_vars

\* A login whose lookup found no record (the supervisor's right password,
\* after the supervisor's row was deleted) and a login whose lookup row says
\* RESULT = 'N' have both been refused with 401.
C22_Witness ==
    \E t, u \in Threads :
        /\ ret[t].op = "login" /\ ret[t].row = NoRow
        /\ ret[t].request = [user_id |-> "sup", password |-> "pw"]
        /\ ret[t].status = 401 /\ ret[t].created = <<>>
        /\ ret[u].op = "login" /\ ret[u].row # NoRow
        /\ Get(ret[u].row, "RESULT", None) = "N"
        /\ ret[u].status = 401 /\ ret[u].created = <<>>

\* TRUE iff request r carries the credentials of an ordinary end user: an
\* end-user record matches them and no admin record does.
EndUserMatches(r) ==
    /\ EndUserRows(TM_Supplier_End_User, r.user_id, hash_password(r.password)) # {}
    /\ AdminRows(r.user_id, hash_password(r.password)) = {}

\* C23: login, traceability-user lookup and supervisor validation
\* authenticate every end user whose credential matches and whose group
\* passes the rights check where one is made, whatever plant data exists; a
\* failed credential match and a failed rights check are the only causes of
\* failure.
C23_OnlyCredentialOrRightsFail ==
    [][\A t \in Threads :
         /\ (LoginLooksUp(t) /\ EndUserMatches(req'[t]))
               => LoginRowAccepted(loc'[t].found.row)
         /\ (LoginReturns(t) /\ LoginRowAccepted(loc[t].found.row))
               => ret'[t].response.success
         /\ (/\ Served(t, "traceability_user")
             /\ EndUserMatches(ret'[t].request)
             /\ HasViewRight(CallerGroup(t), OperatorScreens))
               => ret'[t].response.success
         /\ (/\ Served(t, "supervisor_login")
             /\ EndUserMatches(ret'[t].request)
             /\ HasViewRight(CallerGroup(t), SupervisorScreens))
               => ret'[t].response.success]_vars

\* TRUE iff a supplier-code mapping exists for the user of request r.
HasSupplierMapping(r) ==
    \E mp \in TM_SuppUser_SuppCode_Mapping : mp.UserID = r.user_id

\* TRUE iff the credentials of request r match an admin record.
AdminMatches(r) == AdminRows(r.user_id, hash_password(r.password)) # {}

\* C24: when the credential matches an admin record (IsSupplier = 'Y'), login
\* succeeds only if a supplier-code mapping exists for the user; without one
\* it fails with the message "No User mapped with supplier" and the end-user
\* table is not queried for that request.
C24_AdminNeedsSupplierMapping ==
    [][\A t \in Threads :
         (LoginReturns(t) /\ AdminMatches(ret'[t].request))
         => /\ ret'[t].response.success <=> HasSupplierMapping(ret'[t].request)
            /\ ~HasSupplierMapping(ret'[t].request)
                  => /\ ret'[t].response.message = "No User mapped with supplier"
                     /\ ret'[t].status = 401
                     /\ \A i \in 1..Len(ret'[t].queried) :
                            ret'[t].queried[i] # "TM_Supplier_End_User"]_vars

\* An admin without a supplier mapping who also has an end-user record with
\* the same password was refused, and a mapped admin was logged in.
C24_Witness ==
    \E t, u \in Threads :
        /\ ret[t].op = "login" /\ AdminMatches(ret[t].request)
        /\ ~HasSupplierMapping(ret[t].request)
        /\ EndUserRows(TM_Supplier_End_User, ret[t].request.user_id,
                       hash_password(ret[t].request.password)) # {}
        /\ ret[t].response.message = "No User mapped with supplier"
        /\ ret[u].op = "login" /\ AdminMatches(ret[u].request)
        /\ ret[u].response.success
        /\ ret[u].response.data.is_supplier = "Y"

-----------------------------------------------------------------------------
(* Properties of the tag operations: request invariants *)

\* C25: a re-print or rework request whose old barcode is empty never has the
\* tag-operation executor invoked for it.
C25_EmptyBarcodeNeverExecutes ==
    \A t \in Threads :
        /\ (ret[t].op = "reprint_tag" /\ ret[t].request.old_barcode = <<>>)
              => calls[t].executor = 0
        /\ (ret[t].op = "rework_print" /\ ret[t].request.barcode = <<>>)
              => calls[t].executor = 0

-----------------------------------------------------------------------------
(* Properties of the token-bearing routes *)

\* TRUE iff the bearer is an access token signed with the service's key.
IsAccessToken(bearer) ==
    /\ bearer.wellformed
    /\ bearer.signed_with = SECRET_KEY
    /\ Get(bearer.payload, "type", None) = "access"

\* C26: a model-list request that carries no bearer token, or an invalid one,
\* is rejected and the model-list lookup is not performed.
C26_ModelListNeedsAccessToken ==
    \A t \in Threads :
        (ret[t].op = "model_list" /\ ~IsAccessToken(ret[t].bearer))
        => ret[t].status = 401 /\ ret[t].lookups = 0

-----------------------------------------------------------------------------
(* Properties of the unlock service *)

\* C27: an unlock-fields request whose supervisor authentication fails (its
\* lookup finds no matching record or insufficient rights, or a row with an
\* empty plant code) leaves the registry as it is and reports
\* unlocked = false and supervisor_verified = false; an unlock request
\* changes the registry only when the supervisor validation of that same
\* request has succeeded, and a request that comes through the route, which
\* fails before the service is called, never changes it.
C27_FailedAuthLeavesRegistry ==
    [][\A t \in Threads :
         /\ LookupIsOwn(t)
         /\ Served(t, "unlock_fields_endpoint") =>
               _field_lock_states' = _field_lock_states
         /\ UnlockReturns(t) =>
               LET sup_row == loc[t].supervisor_row
                   failed == \/ sup_row = NoRow
                             \/ sup_row.SupplierPlantCode = ""
               IN  /\ failed =>
                         /\ _field_lock_states' = _field_lock_states
                         /\ ~ret'[t].success
                         /\ ~ret'[t].unlocked
                         /\ ~ret'[t].supervisor_verified
                   /\ _field_lock_states' # _field_lock_states =>
                         /\ ~failed
                         /\ ret'[t].supervisor_verified]_vars

\* A key that a lock request registered is still Locked after an unlock
\* request for it was refused for want of supervisor authentication.
C27_Witness ==
    \E t, u \in Threads :
        /\ ret[u].op = "lock_fields" /\ ret[u].repo[1]
        /\ ret[t].op = "unlock_fields" /\ ret[t].key = ret[u].key
        /\ ~ret[t].supervisor_verified /\ ~ret[t].unlocked
        /\ is_fields_locked(_field_lock_states, ret[t].key)

\* C28: get_current_user accepts a bearer token only if it verifies, is
\* unexpired and has type "access"; any other bearer, a refresh token issued
\* by a login included, is answered with 401 and the protected operation
\* does not run.
C28_OnlyAccessTokensAccepted ==
    [][\A t \in Threads :
         (ret'[t] # ret[t] /\ ret'[t].op = "groups") =>
            LET bearer == ret'[t].bearer
                accepted == /\ IsAccessToken(bearer)
                            /\ bearer.payload["exp"] > now
            IN  /\ accepted => ret'[t].status = 200 /\ ret'[t].lookups = 1
                /\ ~accepted => ret'[t].status = 401 /\ ret'[t].lookups = 0]_vars

\* A client logged in, and the refresh token that login created was presented
\* to the protected groups route while still unexpired: the answer was 401
\* and the groups were not read.
C28_Witness ==
    \E t, u \in Threads :
        /\ ret[u].op = "login" /\ ret[u].response.success
        /\ ret[t].op = "groups"
        /\ ret[t].bearer = ret[u].created[2]
        /\ ret[t].bearer.payload["type"] = "refresh"
        /\ ret[t].bearer.payload["exp"] > now
        /\ ret[t].status = 401 /\ ret[t].lookups = 0

-----------------------------------------------------------------------------
(* Properties of the rework decoder *)

\* Field idx (counted from 0) of the fields f, or default when f has no such
\* field.
FieldOr(f, idx, default) == IF idx < Len(f) THEN f[idx + 1] ELSE default

\* C29: the rework decoder reads every success string by its own layout,
\* whatever the number of fields: field 1 is the barcode, 2 the print time,
\* 3 the serial number, 4 the tag count, 5 the total quantity, 6 the tag type
\* and 7 the print date; a count field that is absent or not an integer
\* decodes to 0, and one that int() reads (white space around it, an
\* underscore between its digits, digits of another script) to that integer.
C29_ReworkLayoutFixed ==
    \A t \in Threads :
        (DecodedFields(t) /\ ret[t].kind = "rework_print" /\ ret[t].response.success)
        => LET f == ret[t].fields
               d == ret[t].response.data
           IN  /\ d.barcode = FieldOr(f, 1, <<>>)
               /\ d.print_time = FieldOr(f, 2, <<>>)
               /\ d.serial_no = FieldOr(f, 3, <<>>)
               /\ d.tag_type = FieldOr(f, 6, <<>>)
               /\ d.print_date = FieldOr(f, 7, <<>>)
               /\ d.no_of_tags_stock_in = CountOf(FieldOr(f, 4, <<"0">>))
               /\ d.total_qty_stock_in = CountOf(FieldOr(f, 5, <<"0">>))
               /\ Len(f) <= 4 => d.no_of_tags_stock_in = <<0>>
               /\ Len(f) <= 5 => d.total_qty_stock_in = <<0>>
               /\ (Len(f) > 5 /\ f[5] = <<"f", "4">> /\ f[6] = <<"f", "5">>)
                     => d.no_of_tags_stock_in = <<0>> /\ d.total_qty_stock_in = <<0>>
               /\ (Len(f) > 5 /\ f[5] = <<"4">> /\ f[6] = <<"5">>)
                     => d.no_of_tags_stock_in = <<4>> /\ d.total_qty_stock_in = <<5>>
               /\ (Len(f) > 5 /\ f[5] = <<"\t", "4", " ", "\n">>
                    /\ f[6] = <<"1", "_", "5">>)
                     => d.no_of_tags_stock_in = <<4>> /\ d.total_qty_stock_in = <<15>>
               /\ (Len(f) > 5 /\ f[5] = <<"4", "_">>
                    /\ f[6] = <<"1", "_", "_", "5">>)
                     => d.no_of_tags_stock_in = <<0>> /\ d.total_qty_stock_in = <<0>>
               /\ (Len(f) > 5 /\ f[5] = <<"U+0664", "_", "U+FF14">>
                    /\ f[6] = <<"U+001C", "5">>)
                     => d.no_of_tags_stock_in = <<44>> /\ d.total_qty_stock_in = <<0>>

\* The 13-field sample string of a print has been decoded for a rework: its
\* fields 1, 2, 3, 6 and 7 came out as barcode, print time, serial number, tag
\* type and print date, and its fields 4 and 5, which are no integers, as 0.
C29_Witness ==
    \E t \in Threads :
        /\ DecodedFields(t) /\ ret[t].kind = "rework_print"
        /\ ret[t].fields = SampleFields
        /\ ret[t].response.success
        /\ ret[t].response.data.barcode = SampleFields[2]
        /\ ret[t].response.data.print_date = SampleFields[8]
        /\ ret[t].response.data.no_of_tags_stock_in = <<0>>
        /\ ret[t].response.data.total_qty_stock_in = <<0>>

-----------------------------------------------------------------------------
(* Properties of locking a key that is already Locked *)

\* The registry call the sequential caller has made in this step.
LastCall == history'[Len(history')]

\* C30: lock(key) on a key that is already Locked, with a found policy other
\* than Disable, succeeds again: it returns (true, policy), the key stays
\* Locked, and the stored LockState is replaced by one whose locked_at and
\* lot_lock_type are those of this call: the time this call read, later than
\* the time of the entry it replaces, and the policy this call looked up,
\* which is the cell of the lot structure as it was at the lookup.
C30_RelockReplacesState ==
    [][/\ (pc[SeqCaller] = "idle" /\ pc'[SeqCaller] = "lock_fields")
             => loc'[SeqCaller].lot_lock_type =
                   get_lot_lock_type(lot_structure, req'[SeqCaller].key[1])
       /\ \A k \in LockKeys :
             LET policy == loc[SeqCaller].lot_lock_type
             IN  (/\ Len(history') = Len(history) + 1
                  /\ LastCall.op = "lock_fields" /\ LastCall.key = k
                  /\ is_fields_locked(_field_lock_states, k)
                  /\ policy # None /\ policy # "Disable")
                 => /\ LastCall.result = <<TRUE, policy>>
                    /\ is_fields_locked(_field_lock_states', k)
                    /\ _field_lock_states'[lock_key(k)] =
                          [locked |-> TRUE,
                           locked_at |-> loc[SeqCaller].locked_at,
                           lot_lock_type |-> policy]
                    /\ _field_lock_states[lock_key(k)].locked_at
                          < loc[SeqCaller].locked_at
                    /\ DOMAIN _field_lock_states' = DOMAIN _field_lock_states]_vars

\* The caller locked a key that was not Locked, under policy 'Enable', and
\* locked it again after the policy had become 'STANDARD': the entry carries
\* the later time and the later policy.
C30_Witness ==
    \E i \in 1..(Len(history) - 1) :
        LET first == history[i]
            again == history[i + 1]
            key == lock_key(first.key)
        IN  /\ first.op = "lock_fields" /\ again.op = "lock_fields"
            /\ again.key = first.key
            /\ key \notin DOMAIN first.before
            /\ first.result = <<TRUE, "Enable">>
            /\ again.result = <<TRUE, "STANDARD">>
            /\ again.before = first.after
            /\ again.after[key].lot_lock_type = "STANDARD"
            /\ again.after[key].locked_at > first.after[key].locked_at

=============================================================================
